---- MODULE Spec2Model ----
(***************************************************************************)
(* Card variant scanner (src/unnamed/part_000, the version of src/index.ts *)
(* that also has the V6-V9 pass): the page prober isDirectPage, the main   *)
(* scan scanCards, the extended-range pass checkV6toV9 and the two files   *)
(* they persist, checked-cards.json and variants-found.json.               *)
(*                                                                         *)
(* A string is a sequence of characters (one-character TLA+ strings); a    *)
(* piece of text that no operation of the program looks into (the base     *)
(* URL, the text of a page) is a single element of the sequence.           *)
(***************************************************************************)
EXTENDS Integers, Sequences, FiniteSets

VARIABLES
  file,             \* content of checked-cards.json: Missing or the mapping
  report,           \* content of variants-found.json: Missing or the list
  mode,             \* menu choice being run: "idle", "scan", "retry", "clear", "ext"
  pc,               \* the await the run is suspended at
  checked,          \* scanCards/checkV6toV9: the in-memory mapping
  pos,              \* index of the current item (scan) or entry (extended pass)
  i,                \* version index of the loop in progress
  variants,         \* scanCards: the local variants list
  hasV1,            \* scanCards: result of the V1 probe of the current item
  hasBase,          \* scanCards: result of the bare-slug probe of the current item
  caught,           \* cards whose processing raised a fault in this run
  probed,           \* URLs isDirectPage was called with for the current item (in
                    \* checkV6toV9: the last entry probed), in order
  delays,           \* for each of them, the Bun.sleep awaited between the probe
                    \* before it and this one: NoSleep or the window of its length
  results,          \* what those calls returned, in order
  existingNumbers,  \* checkV6toV9: versions parsed from the entry at its start
  updated,          \* checkV6toV9: the current entry gained a variant
  modified,         \* checkV6toV9: some entry gained a variant
  retries,          \* transient responses absorbed by the probe in flight
  completed,        \* cards whose processing completed (the save of their
                    \* record returned) since the last wipe
  halt,             \* how the last run ended
  wrote,            \* the current run has written a file
  seen,             \* answers of the remote during the last extended pass
  replay,           \* the remote answers this extended pass as it did the last
  interrupts,       \* runs ended from outside so far: the process killed, or a
                    \* write to one of the two files rejected
  purl,             \* isDirectPage on its own: the URL
  resps,            \* isDirectPage on its own: responses received
  sleeps,           \* isDirectPage on its own: cooldowns slept
  nreq,             \* isDirectPage on its own: requests issued
  pret,             \* isDirectPage on its own: "pending", "true", "false", "throw"
  readme,           \* content of README.md
  section,          \* updateReadme: the section it has built (let section)
  calm,             \* isDirectPage on its own: the remote has stopped answering
                    \* 429 and 403
  json,             \* loadAllCards on its own: the card-set file it reads
  loaded,           \* loadAllCards on its own: the sets it returns
  since             \* menu choices other than 4 made since README.md was last
                    \* written, counted once it is written

vars == << file, report, mode, pc, checked, pos, i, variants, hasV1, hasBase,
           caught, probed, delays, results, existingNumbers, updated, modified, retries,
           completed, halt, wrote, seen, replay, interrupts,
           purl, resps, sleeps, nreq, pret, readme, section, calm, json, loaded, since >>

scanVars == << file, report, mode, pc, checked, pos, i, variants, hasV1, hasBase,
               caught, probed, delays, results, existingNumbers, updated, modified, retries,
               completed, halt, wrote, seen, replay, interrupts, json, loaded,
               since >>

\* what only Interrupt and WriteThrows change, isDirectPage on its own, the
\* README, and loadAllCards on its own
runVars == << interrupts, purl, resps, sleeps, nreq, pret, readme, section, calm,
             json, loaded >>

\* and the count of the menu choices
probeVars == << runVars, since >>

----------------------------------------------------------------------------
(* Bounds *)

\* transient (429/403) responses the remote gives to one probe at most
MaxRetries == 1

\* runs that are ended from outside: the process is killed, or a write of
\* saveJson or saveVariants is rejected
MaxInterrupts == 1

\* menu choices that are followed after a choice 4 has written README.md
MaxSince == 1

\* pieces of README.md up to which choice 4 is followed: a report with a
\* replacement pattern makes the text longer each time it is spliced in
MaxReadme == 600

\* transient responses to isDirectPage when it is checked on its own
MaxProbeRetries == 2

\* requests of one isDirectPage call that are counted when the call may go on
\* for ever: the count stays at this number once it has reached it
MaxCount == 3

\* Math.random() is drawn from the multiples of 1/Grain below 1
Grain == 8

----------------------------------------------------------------------------
(* JavaScript strings *)

Digits == << "0", "1", "2", "3", "4", "5", "6", "7", "8", "9" >>

IsDigit(c) == \E d \in 1..10 : Digits[d] = c

DigitVal(c) == (CHOOSE d \in 1..10 : Digits[d] = c) - 1

Letters ==
  { "a", "b", "c", "d", "e", "f", "g", "h", "i", "j", "k", "l", "m",
    "n", "o", "p", "q", "r", "s", "t", "u", "v", "w", "x", "y", "z",
    "A", "B", "C", "D", "E", "F", "G", "H", "I", "J", "K", "L", "M",
    "N", "O", "P", "Q", "R", "S", "T", "U", "V", "W", "X", "Y", "Z" }

\* \w of a regular expression
IsWordChar(c) == IsDigit(c) \/ c \in Letters \/ c = "_"

Min(S) == CHOOSE x \in S : \A y \in S : x <= y

\* pat occurs in s at position p
StartsAt(s, pat, p) ==
  /\ p + Len(pat) - 1 <= Len(s)
  /\ \A k \in 1..Len(pat) : s[p + k - 1] = pat[k]

\* s.indexOf(pat) + 1: the first position of pat in s, 0 when there is none
IndexOf(s, pat) ==
  LET at == { p \in 1..Len(s) : StartsAt(s, pat, p) }
  IN  IF at = {} THEN 0 ELSE Min(at)

\* s.includes(pat)
Includes(s, pat) == IndexOf(s, pat) # 0

\* s.replace(pat, rep) with a string pattern: the first occurrence only
ReplaceFirst(s, pat, rep) ==
  LET p == IndexOf(s, pat)
  IN  IF p = 0 THEN s
      ELSE SubSeq(s, 1, p - 1) \o rep \o SubSeq(s, p + Len(pat), Len(s))

\* s.replace(/-/g, " ")
ReplaceHyphens(s) == [k \in 1..Len(s) |-> IF s[k] = "-" THEN " " ELSE s[k]]

\* `${n}` of a non-negative integer
RECURSIVE Decimal(_)
Decimal(n) ==
  IF n < 10 THEN << Digits[n + 1] >>
  ELSE Decimal(n \div 10) \o << Digits[(n % 10) + 1] >>

\* Number(ds) of a string of decimal digits
RECURSIVE Number(_)
Number(ds) ==
  IF ds = << >> THEN 0
  ELSE 10 * Number(SubSeq(ds, 1, Len(ds) - 1)) + DigitVal(ds[Len(ds)])

\* the last position of the run of digits of s that starts at k (k-1: no digit)
RECURSIVE DigitRunEnd(_, _)
DigitRunEnd(s, k) ==
  IF k <= Len(s) /\ IsDigit(s[k]) THEN DigitRunEnd(s, k + 1) ELSE k - 1

----------------------------------------------------------------------------
(* URLs of the variant pages *)

BASE_URL == << "https://www.cardmarket.com/en/Pokemon/Products/Singles/" >>

\* /-(\w+\d{3})$/ matches s at position p
CodeNumberAt(s, p) ==
  /\ s[p] = "-"
  /\ Len(s) - p >= 4
  /\ \A k \in (p + 1)..Len(s) : IsWordChar(s[k])
  /\ \A k \in (Len(s) - 2)..Len(s) : IsDigit(s[k])

\* card.replace(/-(\w+\d{3})$/, "-V1-$1")
InsertV1(card) ==
  LET at == { p \in 1..Len(card) : CodeNumberAt(card, p) }
  IN  IF at = {} THEN card
      ELSE LET p == Min(at)
           IN  SubSeq(card, 1, p - 1) \o << "-", "V", "1", "-" >>
                 \o SubSeq(card, p + 1, Len(card))

\* `-V${n}-`
VersionToken(n) == << "-", "V" >> \o Decimal(n) \o << "-" >>

\* `${BASE_URL}${set}/${card.replace(...)}`
SlugV1(set, card) == BASE_URL \o set \o << "/" >> \o InsertV1(card)

\* `${BASE_URL}${set}/${card}`
BaseSlug(set, card) == BASE_URL \o set \o << "/" >> \o card

\* slugV1.replace("-V1-", `-V${n}-`)
SlugVi(slugV1, n) == ReplaceFirst(slugV1, VersionToken(1), VersionToken(n))

\* a pass that substitutes the token of the main scan, "-V1-"
SlugFromV5_FromV1(slugV5, n) == ReplaceFirst(slugV5, VersionToken(1), VersionToken(n))

\* slugV5.replace("-V5-", `-V${n}-`)
SlugFromV5(slugV5, n) == ReplaceFirst(slugV5, VersionToken(5), VersionToken(n))

\* /-V(\d+)-/ matches v at position p
VersionAt(v, p) ==
  /\ p + 3 <= Len(v)
  /\ v[p] = "-"
  /\ v[p + 1] = "V"
  /\ LET q == DigitRunEnd(v, p + 2)
     IN  q >= p + 2 /\ q + 1 <= Len(v) /\ v[q + 1] = "-"

\* v.match(/-V(\d+)-/) is not null
HasVersion(v) == \E p \in 1..Len(v) : VersionAt(v, p)

\* Number(match[1]) of v.match(/-V(\d+)-/), for a v that matches
VersionOf(v) ==
  LET p == Min({ q \in 1..Len(v) : VersionAt(v, q) })
  IN  Number(SubSeq(v, p + 2, DigitRunEnd(v, p + 2)))

\* Number(a.match(/-V(\d+)-/)?.[1] ?? 0)
SortKey(v) == IF HasVersion(v) THEN VersionOf(v) ELSE 0

\* Array.prototype.sort with (a, b) => numA - numB: a stable sort by SortKey
RECURSIVE InsertByKey(_, _)
InsertByKey(sorted, v) ==
  IF sorted = << >> THEN << v >>
  ELSE IF SortKey(sorted[Len(sorted)]) <= SortKey(v) THEN Append(sorted, v)
  ELSE Append(InsertByKey(SubSeq(sorted, 1, Len(sorted) - 1), v), sorted[Len(sorted)])

\* a pass that leaves the list in the order of the pushes
SortVariants_Unsorted(vs) == vs

RECURSIVE SortVariants(_)
SortVariants(vs) ==
  IF vs = << >> THEN << >>
  ELSE InsertByKey(SortVariants(SubSeq(vs, 1, Len(vs) - 1)), vs[Len(vs)])

\* entry.variants.some(v => v.includes("-V5-"))
HasV5(vs) == \E k \in 1..Len(vs) : Includes(vs[k], VersionToken(5))

\* entry.variants.find(v => v.includes("-V5-"))
FindV5(vs) == vs[Min({ k \in 1..Len(vs) : Includes(vs[k], VersionToken(5)) })]

\* a pass that does not look at the versions the entry has
ExistingNumbers_None(vs) == {}

\* new Set(entry.variants.map(...).filter(n => n !== null))
ExistingNumbers(vs) ==
  { VersionOf(vs[k]) : k \in { j \in 1..Len(vs) : HasVersion(vs[j]) } }

\* entry.variants.includes(slugVi)
ListIncludes(vs, v) == \E k \in 1..Len(vs) : vs[k] = v

----------------------------------------------------------------------------
(* isDirectPage: one pass of its loop on one response *)

InvalidMarker == << "Invalid product!" >>

\* Bun.sleep after a 429 and after a 403
Cooldown429 == 60000
Cooldown403 == 300000

\* the arguments of randomDelay in scanCards and checkV6toV9
JitterMin == 3000
JitterMax == 5000

IsTransient(res) == res.status = 429 \/ res.status = 403

\* the older prober of src/unnamed/part_001: the status code alone decides
Classify_StatusOnly(url, res) == res.status = 200

\* the lines after the two retry branches: the value returned for res
Classify(url, res) ==
  IF res.url # url THEN FALSE
  ELSE IF Includes(res.body, InvalidMarker) THEN FALSE
  ELSE res.status = 200

\* a prober that retries after a 429 only, and classifies a 403
IsDirectPageStep_403Returns(url, res) ==
  IF res.status = 429 THEN [again |-> TRUE, sleep |-> Cooldown429, value |-> FALSE]
  ELSE [again |-> FALSE, sleep |-> 0, value |-> Classify(url, res)]

\* one iteration of while (true): either sleep and go round again, or return
IsDirectPageStep(url, res) ==
  IF res.status = 429 THEN [again |-> TRUE, sleep |-> Cooldown429, value |-> FALSE]
  ELSE IF res.status = 403 THEN [again |-> TRUE, sleep |-> Cooldown403, value |-> FALSE]
  ELSE [again |-> FALSE, sleep |-> 0, value |-> Classify(url, res)]

----------------------------------------------------------------------------
(* loadAllCards: from a line of a card-set file to a slug *)

\* no card-set file
NoCardSet == [set |-> << >>, code |-> << >>, cards |-> << >>]

\* the characters \s of a regular expression matches; those that a string of
\* a module cannot hold are named by their code point
WhiteSpace ==
  { " ", "\t", "\n", "\r", "\f", "U+000B", "U+00A0", "U+1680", "U+2000", "U+2001",
    "U+2002", "U+2003", "U+2004", "U+2005", "U+2006", "U+2007", "U+2008", "U+2009",
    "U+200A", "U+2028", "U+2029", "U+202F", "U+205F", "U+3000", "U+FEFF" }

IsSpace(c) == c \in WhiteSpace

\* line.split(/\s+/): the pieces between the runs of whitespace, the empty
\* piece in front of a leading run and after a trailing one included
RECURSIVE Split(_)
Split(s) ==
  LET spaces == { p \in 1..Len(s) : IsSpace(s[p]) }
  IN  IF spaces = {} THEN << s >>
      ELSE LET p == Min(spaces)
               after == { q \in p..Len(s) : ~IsSpace(s[q]) }
               q == IF after = {} THEN Len(s) + 1 ELSE Min(after)
           IN  << SubSeq(s, 1, p - 1) >> \o Split(SubSeq(s, q, Len(s)))

\* number.padStart(3, "0")
PadStart(number, width, c) ==
  IF Len(number) >= width THEN number
  ELSE [k \in 1..(width - Len(number)) |-> c] \o number

\* nameParts.join("-")
RECURSIVE Join(_, _)
Join(parts, sep) ==
  IF parts = << >> THEN << >>
  ELSE IF Len(parts) = 1 THEN parts[1]
  ELSE parts[1] \o sep \o Join(Tail(parts), sep)

\* the characters of /[()\[\]']/
Stripped == { "(", ")", "[", "]", "'" }

IsKept(c) == c \notin Stripped

\* rawName.replace(/[()\[\]']/g, "")
CleanName(rawName) == SelectSeq(rawName, IsKept)

\* the callback of json.cards.map
FormatCard(line, code) ==
  LET parts == Split(line)
      number == parts[1]
      nameParts == Tail(parts)
      cardNumber == PadStart(number, 3, "0")
      rawName == Join(nameParts, << "-" >>)
      cleanedName == CleanName(rawName)
  IN  cleanedName \o << "-" >> \o code \o cardNumber

\* json.cards.map(...)
FormattedCards(cards, code) == [k \in 1..Len(cards) |-> FormatCard(cards[k], code)]

----------------------------------------------------------------------------
(* The catalog: what loadAllCards returns for the files of ./card-sets *)

AllSets ==
  << [ set   |-> << "S", "-", "V" >>,
       code  |-> << "S", "V" >>,
       cards |-> << << "A", "b", "r", "a", "-", "S", "V", "0", "4", "3" >>,
                    << "M", "e", "w", "-", "S", "V", "0", "1", "2" >> >> ],
     [ set   |-> << "X", "Y" >>,
       code  |-> << "X", "Y" >>,
       cards |-> << << "O", "n", "i", "x", "-", "X", "Y", "0", "0", "7" >> >> ] >>

\* for (const { set, cards } of allSets) for (const card of cards): the items
\* in the order the two nested loops of scanCards visit them
RECURSIVE ItemsOf(_)
ItemsOf(sets) ==
  IF sets = << >> THEN << >>
  ELSE [k \in 1..Len(sets[1].cards) |-> [set |-> sets[1].set, card |-> sets[1].cards[k]]]
         \o ItemsOf(Tail(sets))

Items == ItemsOf(AllSets)

NItems == Len(Items)

----------------------------------------------------------------------------
(* The remote site *)

\* what a redirect ends at
FallbackUrl == BASE_URL

StatusCodes == { 200, 404, 403, 429 }

Bodies == { << "<html>" >>, << "<html>", "Invalid product!" >> }

\* The versions of each item that the remote may ever serve as a page (0: the
\* bare slug); every other page the scan asks for is not found.
PublishedVersions == << { 0, 1, 2, 4, 5, 6, 8 }, { 0, 1 }, { 0 } >>

VersionedSlug(item, n) ==
  IF n = 0 THEN BaseSlug(item.set, item.card)
  ELSE SlugVi(SlugV1(item.set, item.card), n)

Published ==
  UNION { { VersionedSlug(Items[k], n) : n \in PublishedVersions[k] } : k \in 1..NItems }

\* the responses fetch(url) may resolve to
Responses(url) ==
  { res \in [status : StatusCodes, url : { url, FallbackUrl }, body : Bodies] :
      Classify(url, res) => url \in Published }

\* what one iteration of isDirectPage(url) may do with the response it gets
Steps(url) == { IsDirectPageStep(url, res) : res \in Responses(url) }

----------------------------------------------------------------------------
(* The two files and the mapping *)

Missing == [kind |-> "missing", data |-> << >>]

\* JSON.stringify(data, null, 2) written by Bun.write
SaveJson(data) == [kind |-> "json", data |-> data]

\* Bun.file(path).text() rejects: the path cannot be read
Unreadable == [kind |-> "unreadable", data |-> << >>]

\* a file whose text is JSON.stringify(data, null, 2) cut short, which
\* JSON.parse rejects
Truncated(data) == [kind |-> "unparseable", data |-> data]

\* a loader that salvages the records of a text it cannot parse
LoadJson_Salvages(f, fallback) ==
  IF f.kind \in { "json", "unparseable" } THEN f.data ELSE fallback

\* JSON.parse of the file's text, the fallback when that throws
LoadJson(f, fallback) == IF f.kind = "json" THEN f.data ELSE fallback

\* The mapping is an object whose keys keep their insertion order: a sequence
\* of [key, val]. A val has the properties status and variants, and expansion
\* when it was set.
HasKey(m, c) == \E k \in 1..Len(m) : m[k].key = c

Get(m, c) == m[CHOOSE k \in 1..Len(m) : m[k].key = c].val

\* m[c] = e
Put(m, c, e) ==
  IF HasKey(m, c)
  THEN [k \in 1..Len(m) |-> IF m[k].key = c THEN [key |-> c, val |-> e] ELSE m[k]]
  ELSE Append(m, [key |-> c, val |-> e])

ErrorEntry == [status |-> "error", variants |-> << >>]

NoVariantsEntry == [status |-> "no-variants", variants |-> << >>]

OkEntry(vs, set) == [status |-> "ok", variants |-> vs, expansion |-> ReplaceHyphens(set)]

Unknown == << "U", "n", "k", "n", "o", "w", "n" >>

HasVariants(kv) == Len(kv.val.variants) > 0

\* v.expansion || "Unknown"
ExpansionOf(v) ==
  IF "expansion" \in DOMAIN v /\ v.expansion # << >> THEN v.expansion ELSE Unknown

\* the list saveVariants writes
VariantsOf(data) ==
  LET kept == SelectSeq(data, HasVariants)
  IN  [k \in 1..Len(kept) |->
         [card |-> kept[k].key, expansion |-> ExpansionOf(kept[k].val),
          variants |-> kept[k].val.variants]]

----------------------------------------------------------------------------
(* updateReadme *)

\* A text is a sequence of characters (BASE_URL is one piece, as in the
\* links). README.md is a text; the empty one stands for readme = "" of the
\* catch block, when there is no README.md.
NoReadme == << >>

\* updateReadme is not building a section
NoSection == << >>

\* const start
StartMarker ==
  << "<", "!", "-", "-", " ", "V", "A", "R", "I", "A", "N", "T", "S", "_", "S", "T", "A", "R", "T", " ", "-", "-", ">" >>

\* const end
EndMarker ==
  << "<", "!", "-", "-", " ", "V", "A", "R", "I", "A", "N", "T", "S", "_", "E", "N", "D", " ", "-", "-", ">" >>

\* link.split("/").pop()
LastSegment(link) ==
  LET slashes == { p \in 1..Len(link) : link[p] = "/" }
  IN  IF slashes = {} THEN link
      ELSE SubSeq(link, (CHOOSE p \in slashes : \A r \in slashes : r <= p) + 1, Len(link))

\* `[${name}](${link})`
PartText(link) ==
  << "[" >> \o LastSegment(link) \o << "]", "(" >> \o link \o << ")" >>

\* a renderer that links every variant, the first one too
Parts_All(vs) == [k \in 1..Len(vs) |-> PartText(vs[k])]

\* v.variants.slice(1).map(link => `[${name}](${link})`)
Parts(vs) == [k \in 1..(Len(vs) - 1) |-> PartText(vs[k + 1])]

\* the names that {} inherits from Object.prototype: grouped[name] is truthy
\* though no list was made for name
ObjectPrototypeKeys ==
  { << "c", "o", "n", "s", "t", "r", "u", "c", "t", "o", "r" >>,
    << "t", "o", "S", "t", "r", "i", "n", "g" >>,
    << "t", "o", "L", "o", "c", "a", "l", "e", "S", "t", "r", "i", "n", "g" >>,
    << "v", "a", "l", "u", "e", "O", "f" >>,
    << "h", "a", "s", "O", "w", "n", "P", "r", "o", "p", "e", "r", "t", "y" >>,
    << "i", "s", "P", "r", "o", "t", "o", "t", "y", "p", "e", "O", "f" >>,
    << "p", "r", "o", "p", "e", "r", "t", "y", "I", "s", "E", "n", "u", "m", "e", "r", "a", "b", "l", "e" >>,
    << "_", "_", "p", "r", "o", "t", "o", "_", "_" >>,
    << "_", "_", "d", "e", "f", "i", "n", "e", "G", "e", "t", "t", "e", "r", "_", "_" >>,
    << "_", "_", "d", "e", "f", "i", "n", "e", "S", "e", "t", "t", "e", "r", "_", "_" >>,
    << "_", "_", "l", "o", "o", "k", "u", "p", "G", "e", "t", "t", "e", "r", "_", "_" >>,
    << "_", "_", "l", "o", "o", "k", "u", "p", "S", "e", "t", "t", "e", "r", "_", "_" >> }

\* if (!grouped[v.expansion]) { ... } grouped[v.expansion].push(...): the push
\* throws when grouped[v.expansion] is an inherited property, which is no list
AddLine(groups, expansion, line) ==
  IF expansion \in ObjectPrototypeKeys
  THEN [threw |-> TRUE, groups |-> groups]
  ELSE IF \E g \in 1..Len(groups) : groups[g].expansion = expansion
  THEN [threw |-> FALSE,
        groups |-> [g \in 1..Len(groups) |->
                      IF groups[g].expansion = expansion
                      THEN [groups[g] EXCEPT !.lines = Append(@, line)]
                      ELSE groups[g]]]
  ELSE [threw |-> FALSE,
        groups |-> Append(groups, [expansion |-> expansion, lines |-> << line >>])]

\* `${v.card}: ${parts.join(", ")}`
LineText(card, parts) == card \o << ":", " " >> \o Join(parts, << ",", " " >>)

\* for (const v of variants): the groups, in the order they were first seen,
\* or the exception of a push
RECURSIVE Grouped(_)
Grouped(entries) ==
  IF entries = << >> THEN [threw |-> FALSE, groups |-> << >>]
  ELSE LET v == entries[Len(entries)]
           before == Grouped(SubSeq(entries, 1, Len(entries) - 1))
       IN  IF before.threw \/ Len(v.variants) <= 1 THEN before
           ELSE AddLine(before.groups, v.expansion, LineText(v.card, Parts(v.variants)))

\* section += `\n### ${expansion}\n`;
\* section += grouped[expansion].map(c => `- ${c}`).join("\n") + "\n"
GroupText(group) ==
  << "\n", "#", "#", "#", " " >> \o group.expansion \o << "\n" >>
    \o Join([k \in 1..Len(group.lines) |-> << "-", " " >> \o group.lines[k]], << "\n" >>)
    \o << "\n" >>

\* let section = "## Variants Found\n", and the groups in expansionOrder
SectionText(groups) ==
  << "#", "#", " ", "V", "a", "r", "i", "a", "n", "t", "s", " ", "F", "o", "u", "n", "d", "\n" >>
    \o Join([g \in 1..Len(groups) |-> GroupText(groups[g])], << >>)

\* the grave accent (U+0060) as a character of a text; a string of one grave
\* accent cannot be written in a module
GraveAccent == "U+0060"

\* String.prototype.replace with a replacement string: $$ is a dollar, $& the
\* match, $ and a grave accent the text before it, $ and an apostrophe the
\* text after it; the expression has no group, so any other $ stays
RECURSIVE Expand(_, _, _, _)
Expand(replacement, before, matched, after) ==
  LET patterns == { p \in 1..(Len(replacement) - 1) :
                      /\ replacement[p] = "$"
                      /\ replacement[p + 1] \in { "$", "&", GraveAccent, "'" } }
  IN  IF patterns = {} THEN replacement
      ELSE LET p == Min(patterns)
               c == replacement[p + 1]
           IN  SubSeq(replacement, 1, p - 1)
                 \o (CASE c = "$" -> << "$" >>
                        [] c = "&" -> matched
                        [] c = GraveAccent -> before
                        [] c = "'" -> after)
                 \o Expand(SubSeq(replacement, p + 2, Len(replacement)),
                           before, matched, after)

\* new RegExp(`${start}[\\s\\S]*?${end}`, "m") on the text: the section built
\* replaces the text from the first start marker to the first end marker
\* that begins after it, wherever the text spells them; or it is added at the
\* end with its markers
Splice(text, built) ==
  LET starts == { p \in 1..Len(text) : StartsAt(text, StartMarker, p) }
      ends == { r \in 1..Len(text) :
                  /\ r >= Min(starts) + Len(StartMarker)
                  /\ StartsAt(text, EndMarker, r) }
  IN  IF starts # {} /\ ends # {}
      THEN LET p == Min(starts)
               r == Min(ends)
               before == SubSeq(text, 1, p - 1)
               matched == SubSeq(text, p, r + Len(EndMarker) - 1)
               after == SubSeq(text, r + Len(EndMarker), Len(text))
           IN  before
                 \o Expand(StartMarker \o << "\n" >> \o built \o EndMarker,
                           before, matched, after)
                 \o after
      ELSE text \o << "\n" >> \o StartMarker \o << "\n" >> \o built
             \o EndMarker \o << "\n" >>

----------------------------------------------------------------------------
(* randomDelay and the sleeps between the probes *)

\* Math.random() is one of 0/Grain, 1/Grain, ..., (Grain - 1)/Grain
Randoms == 0..(Grain - 1)

\* Math.floor(Math.random() * (max - min + 1)) + min, with Math.random() = r/Grain
RandomDelay(min, max, r) == ((r * (max - min + 1)) \div Grain) + min

\* no Bun.sleep between two probes
NoSleep == [min |-> 0, max |-> 0]

\* await Bun.sleep(randomDelay(3000, 5000))
Jitter == [min |-> JitterMin, max |-> JitterMax]

----------------------------------------------------------------------------
(* scanCards *)

\* a scan that processes every item, recorded or not
ShouldSkip_Never(m, card, updateOnlyErrors) == FALSE

\* the older scanCards of src/unnamed/part_001: error records are reprocessed
\* in either mode
ShouldSkip_Legacy(m, card, updateOnlyErrors) ==
  HasKey(m, card) /\ Get(m, card).status # "error"

\* if (already && (!updateOnlyErrors || already.status !== "error")) continue
ShouldSkip(m, card, updateOnlyErrors) ==
  HasKey(m, card) /\ (~updateOnlyErrors \/ Get(m, card).status # "error")

\* the first item after position from that the loops do not skip
NextItem(m, updateOnlyErrors, from) ==
  LET todo == { k \in (from + 1)..NItems : ~ShouldSkip(m, Items[k].card, updateOnlyErrors) }
  IN  IF todo = {} THEN NItems + 1 ELSE Min(todo)

\* no extended pass was the last run
NoSeen == [of |-> "none", answers |-> {}]

\* the run is over: the process exits and its memory is gone
Exit(how) ==
  /\ mode' = "idle"
  /\ pc' = "idle"
  /\ checked' = << >>
  /\ pos' = 0
  /\ i' = 0
  /\ variants' = << >>
  /\ hasV1' = "unset"
  /\ hasBase' = "unset"
  /\ caught' = {}
  /\ probed' = << >>
  /\ delays' = << >>
  /\ results' = << >>
  /\ existingNumbers' = {}
  /\ updated' = FALSE
  /\ modified' = FALSE
  /\ retries' = 0
  /\ wrote' = FALSE
  /\ replay' = "no"
  /\ halt' = how

\* a menu choice other than 4 is made: it is counted once README.md is written
Chosen ==
  /\ readme # NoReadme => since < MaxSince
  /\ since' = IF readme = NoReadme THEN since ELSE since + 1

\* the loops go on after position from with the mapping m: up to the first
\* await of the next item that is not skipped, or to the end of scanCards
ScanFrom(m, md, from) ==
  LET nxt == NextItem(m, md = "retry", from)
  IN  IF nxt > NItems THEN Exit("finished")
      ELSE /\ mode' = md
           /\ pc' = "v1"
           /\ checked' = m
           /\ pos' = nxt
           /\ i' = 0
           /\ variants' = << >>
           /\ hasV1' = "unset"
           /\ hasBase' = "unset"
           /\ caught' = caught
           /\ probed' = << SlugV1(Items[nxt].set, Items[nxt].card) >>
           /\ delays' = << IF from = 0 THEN NoSleep ELSE Jitter >>
           /\ results' = << >>
           /\ retries' = 0
           /\ halt' = "running"
           /\ wrote' = wrote
           /\ replay' = "no"
           /\ UNCHANGED << existingNumbers, updated, modified >>

\* choice 1 and choice 2: scanCards(false), scanCards(true)
StartScan(m) ==
  /\ mode = "idle"
  /\ m \in { "scan", "retry" }
  /\ Chosen
  /\ ScanFrom(LoadJson(file, << >>), m, 0)
  /\ seen' = NoSeen
  /\ UNCHANGED << file, report, completed, runVars >>

\* a rescan that leaves checked-cards.json as it is
StartClear_KeepsStore ==
  /\ mode = "idle"
  /\ Chosen
  /\ mode' = "clear"
  /\ pc' = "clear2"
  /\ completed' = {}
  /\ wrote' = TRUE
  /\ seen' = NoSeen
  /\ halt' = "running"
  /\ UNCHANGED << file, report, checked, pos, i, variants, hasV1, hasBase, caught,
                  probed, delays, results, existingNumbers, updated, modified, retries,
                  replay, runVars >>

\* choice 9: saveJson(CHECKED_FILE, {})
StartClear ==
  /\ mode = "idle"
  /\ Chosen
  /\ mode' = "clear"
  /\ pc' = "clear2"
  /\ file' = SaveJson(<< >>)
  /\ completed' = {}
  /\ wrote' = TRUE
  /\ seen' = NoSeen
  /\ halt' = "running"
  /\ UNCHANGED << report, checked, pos, i, variants, hasV1, hasBase, caught, probed, delays,
                  results, existingNumbers, updated, modified, retries, replay,
                  runVars >>

\* choice 9: saveJson(VARIANTS_FILE, []), then scanCards(false)
ClearVariants ==
  /\ pc = "clear2"
  /\ report' = SaveJson(<< >>)
  /\ ScanFrom(LoadJson(file, << >>), mode, 0)
  /\ UNCHANGED << file, completed, seen, probeVars >>

Item == Items[pos]

\* the probe in flight absorbs a 429 or a 403: it sleeps and asks again
Absorb ==
  /\ retries < MaxRetries
  /\ retries' = retries + 1
  /\ UNCHANGED << file, report, mode, pc, checked, pos, i, variants, hasV1, hasBase,
                  caught, probed, delays, results, existingNumbers, updated, modified,
                  completed, halt, wrote, seen, replay, probeVars >>

\* the older scanCards of src/unnamed/part_001: no probe of the bare slug
ProbeV1_NoBase(step) ==
  LET slugV1 == SlugV1(Item.set, Item.card)
  IN  /\ pc = "v1"
      /\ step \in Steps(slugV1)
      /\ IF step.again THEN Absorb
         ELSE /\ retries' = 0
              /\ results' = Append(results, step.value)
              /\ IF step.value
                 THEN /\ hasV1' = "true"
                      /\ variants' = << slugV1 >>
                      /\ i' = 2
                      /\ pc' = "vi"
                      /\ probed' = Append(probed, SlugVi(slugV1, 2))
                      /\ delays' = Append(delays, Jitter)
                      /\ UNCHANGED checked
                 ELSE /\ hasV1' = "false"
                      /\ pc' = "save"
                      /\ checked' = Put(checked, Item.card, NoVariantsEntry)
                      /\ UNCHANGED << variants, i, probed, delays >>
              /\ UNCHANGED << file, report, mode, pos, hasBase, caught,
                              existingNumbers, updated, modified, completed, halt,
                              wrote, seen, replay, probeVars >>

\* const hasV1 = await isDirectPage(slugV1)
ProbeV1(step) ==
  LET slugV1 == SlugV1(Item.set, Item.card)
  IN  /\ pc = "v1"
      /\ step \in Steps(slugV1)
      /\ IF step.again THEN Absorb
         ELSE /\ retries' = 0
              /\ results' = Append(results, step.value)
              /\ IF step.value
                 THEN /\ hasV1' = "true"
                      /\ variants' = << slugV1 >>
                      /\ i' = 2
                      /\ pc' = "vi"
                      /\ probed' = Append(probed, SlugVi(slugV1, 2))
                      /\ delays' = Append(delays, Jitter)
                 ELSE /\ hasV1' = "false"
                      /\ pc' = "base"
                      /\ probed' = Append(probed, BaseSlug(Item.set, Item.card))
                      /\ delays' = Append(delays, NoSleep)
                      /\ UNCHANGED << variants, i >>
              /\ UNCHANGED << file, report, mode, checked, pos, hasBase, caught,
                              existingNumbers, updated, modified, completed, halt,
                              wrote, seen, replay, probeVars >>

\* const hasBase = await isDirectPage(baseSlug), and the record it decides
ProbeBase(step) ==
  LET baseSlug == BaseSlug(Item.set, Item.card)
  IN  /\ pc = "base"
      /\ step \in Steps(baseSlug)
      /\ IF step.again THEN Absorb
         ELSE /\ retries' = 0
              /\ results' = Append(results, step.value)
              /\ hasBase' = IF step.value THEN "true" ELSE "false"
              /\ checked' = Put(checked, Item.card,
                                IF step.value THEN NoVariantsEntry ELSE ErrorEntry)
              /\ pc' = "save"
              /\ UNCHANGED << file, report, mode, pos, i, variants, hasV1, caught,
                              probed, delays, existingNumbers, updated, modified, completed,
                              halt, wrote, seen, replay, probeVars >>

\* a search that ends at the first version that is not found
ProbeVi_StopsAtGap(step) ==
  LET slugV1 == SlugV1(Item.set, Item.card)
      slugVi == SlugVi(slugV1, i)
      found == IF step.value THEN Append(variants, slugVi) ELSE variants
  IN  /\ pc = "vi"
      /\ step \in Steps(slugVi)
      /\ IF step.again THEN Absorb
         ELSE /\ retries' = 0
              /\ results' = Append(results, step.value)
              /\ variants' = found
              /\ i' = i + 1
              /\ IF i + 1 <= 5 /\ step.value
                 THEN /\ probed' = Append(probed, SlugVi(slugV1, i + 1))
                      /\ delays' = Append(delays, Jitter)
                      /\ UNCHANGED << pc, checked >>
                 ELSE /\ checked' = Put(checked, Item.card, OkEntry(found, Item.set))
                      /\ pc' = "save"
                      /\ UNCHANGED << probed, delays >>
              /\ UNCHANGED << file, report, mode, pos, hasV1, hasBase, caught,
                              existingNumbers, updated, modified, completed, halt,
                              wrote, seen, replay, probeVars >>

\* the body of for (let i = 2; i <= 5; i++) after its sleep, and what follows
\* the loop
ProbeVi(step) ==
  LET slugV1 == SlugV1(Item.set, Item.card)
      slugVi == SlugVi(slugV1, i)
      found == IF step.value THEN Append(variants, slugVi) ELSE variants
  IN  /\ pc = "vi"
      /\ step \in Steps(slugVi)
      /\ IF step.again THEN Absorb
         ELSE /\ retries' = 0
              /\ results' = Append(results, step.value)
              /\ variants' = found
              /\ i' = i + 1
              /\ IF i + 1 <= 5
                 THEN /\ probed' = Append(probed, SlugVi(slugV1, i + 1))
                      /\ delays' = Append(delays, Jitter)
                      /\ UNCHANGED << pc, checked >>
                 ELSE /\ checked' = Put(checked, Item.card, OkEntry(found, Item.set))
                      /\ pc' = "save"
                      /\ UNCHANGED << probed, delays >>
              /\ UNCHANGED << file, report, mode, pos, hasV1, hasBase, caught,
                              existingNumbers, updated, modified, completed, halt,
                              wrote, seen, replay, probeVars >>

\* a scan without the try block: the fault ends the run
ProbeThrows_Uncaught ==
  /\ pc \in { "v1", "base", "vi" }
  /\ caught' = caught \cup { Item.card }
  /\ mode' = "idle"
  /\ pc' = "idle"
  /\ checked' = << >>
  /\ pos' = 0
  /\ i' = 0
  /\ variants' = << >>
  /\ hasV1' = "unset"
  /\ hasBase' = "unset"
  /\ probed' = << >>
  /\ delays' = << >>
  /\ results' = << >>
  /\ retries' = 0
  /\ wrote' = FALSE
  /\ halt' = "uncaught"
  /\ UNCHANGED << file, report, existingNumbers, updated, modified, completed,
                  seen, replay, probeVars >>

\* a catch block that keeps the variants found before the fault
ProbeThrows_KeepsVariants ==
  /\ pc \in { "v1", "base", "vi" }
  /\ caught' = caught \cup { Item.card }
  /\ checked' = Put(checked, Item.card, [status |-> "error", variants |-> variants])
  /\ pc' = "save"
  /\ retries' = 0
  /\ UNCHANGED << file, report, mode, pos, i, variants, hasV1, hasBase, probed, delays,
                  results, existingNumbers, updated, modified, completed, halt, wrote,
                  seen, replay, probeVars >>

\* fetch or res.text() rejects inside the try block: catch (err)
ProbeThrows ==
  /\ pc \in { "v1", "base", "vi" }
  /\ caught' = caught \cup { Item.card }
  /\ checked' = Put(checked, Item.card, ErrorEntry)
  /\ pc' = "save"
  /\ retries' = 0
  /\ UNCHANGED << file, report, mode, pos, i, variants, hasV1, hasBase, probed, delays,
                  results, existingNumbers, updated, modified, completed, halt, wrote,
                  seen, replay, probeVars >>

\* a scan that does not write the mapping after an item
SaveChecked_NoWrite ==
  /\ pc = "save"
  /\ pc' = "saveVariants"
  /\ completed' = completed \cup { Item.card }
  /\ UNCHANGED << file, report, mode, checked, pos, i, variants, hasV1, hasBase, caught,
                  probed, delays, results, existingNumbers, updated, modified, retries, halt,
                  wrote, seen, replay, probeVars >>

\* await saveJson(CHECKED_FILE, checked)
SaveChecked ==
  /\ pc = "save"
  /\ file' = SaveJson(checked)
  /\ pc' = "saveVariants"
  /\ completed' = completed \cup { Item.card }
  /\ wrote' = TRUE
  /\ UNCHANGED << report, mode, checked, pos, i, variants, hasV1, hasBase, caught,
                  probed, delays, results, existingNumbers, updated, modified, retries, halt,
                  seen, replay, probeVars >>

\* await saveVariants(checked)
SaveVariants ==
  /\ pc = "saveVariants"
  /\ report' = SaveJson(VariantsOf(checked))
  /\ pc' = "sleep"
  /\ UNCHANGED << file, mode, checked, pos, i, variants, hasV1, hasBase, caught,
                  probed, delays, results, existingNumbers, updated, modified, retries,
                  completed, halt, wrote, seen, replay, probeVars >>

\* await Bun.sleep(randomDelay(3000, 5000)) after the two saves, and on to the
\* next item or to the end of scanCards
SleepAfterItem ==
  /\ pc = "sleep"
  /\ ScanFrom(checked, mode, pos)
  /\ UNCHANGED << file, report, completed, seen, probeVars >>

\* Bun.write rejects in saveJson or saveVariants: nothing catches it, the run
\* ends and the file keeps the content it had
WriteThrows ==
  /\ pc \in { "clear2", "save", "saveVariants", "xsave", "xsaveVariants" }
  /\ interrupts < MaxInterrupts
  /\ interrupts' = interrupts + 1
  /\ Exit("uncaught")
  /\ seen' = NoSeen
  /\ UNCHANGED << file, report, completed, purl, resps, sleeps, nreq, pret, readme, section,
                  calm, json, loaded, since >>

\* the process is killed while a run is in progress
Interrupt ==
  /\ mode # "idle"
  /\ interrupts < MaxInterrupts
  /\ interrupts' = interrupts + 1
  /\ Exit("interrupted")
  /\ seen' = NoSeen
  /\ section' = NoSection
  /\ UNCHANGED << file, report, completed, purl, resps, sleeps, nreq, pret, readme,
                  calm, json, loaded, since >>

----------------------------------------------------------------------------
(* checkV6toV9 *)

\* entry.variants.push(slugVi) under if (!entry.variants.includes(slugVi))
PushNew(vs, slugVi) == IF ListIncludes(vs, slugVi) THEN vs ELSE Append(vs, slugVi)

\* a pass that writes the two files whether or not it found anything
SavesAfterPass_Always(mod) == TRUE

\* if (modified) after the loop over the entries
SavesAfterPass(mod) == mod

\* The loop over Object.entries(checked) goes on with the mapping m at entry e,
\* version k (0: the top of the entry's body), up to the next await of a probe
\* or to the end of the loop. ex, upd, mod: existingNumbers, updated, modified.
RECURSIVE ExtNext(_, _, _, _, _, _)
ExtNext(m, e, k, ex, upd, mod) ==
  IF e > Len(m)
  THEN [done |-> TRUE, m |-> m, pos |-> e, i |-> 0, ex |-> {}, upd |-> FALSE, mod |-> mod]
  ELSE LET entry == m[e].val
       IN  IF k = 0
           THEN IF entry.status # "ok" \/ ~HasV5(entry.variants)
                THEN ExtNext(m, e + 1, 0, {}, FALSE, mod)
                ELSE ExtNext(m, e, 6, ExistingNumbers(entry.variants), FALSE, mod)
           ELSE IF k > 9
           THEN IF upd
                THEN ExtNext(Put(m, m[e].key,
                                 [entry EXCEPT !.variants = SortVariants(entry.variants)]),
                             e + 1, 0, {}, FALSE, TRUE)
                ELSE ExtNext(m, e + 1, 0, {}, FALSE, mod)
           ELSE IF k \in ex \/ ~HasV5(entry.variants)
           THEN ExtNext(m, e, k + 1, ex, upd, mod)
           ELSE [done |-> FALSE, m |-> m, pos |-> e, i |-> k, ex |-> ex,
                 upd |-> upd, mod |-> mod]

\* the URL the pass probes for entry e of m and version k
ExtSlug(m, e, k) == SlugFromV5(FindV5(m[e].val.variants), k)

\* the pass goes on from the state nx that ExtNext found; ret: what the probe
\* that just returned gave, if one did
ExtGoOn(nx, ret) ==
  IF nx.done
  THEN IF SavesAfterPass(nx.mod)
       THEN /\ pc' = "xsave"
            /\ mode' = "ext"
            /\ checked' = nx.m
            /\ pos' = nx.pos
            /\ i' = 0
            /\ existingNumbers' = {}
            /\ updated' = FALSE
            /\ modified' = nx.mod
            /\ probed' = IF mode = "ext" THEN probed ELSE << >>
            /\ delays' = IF mode = "ext" THEN delays ELSE << >>
            /\ results' = IF mode = "ext" THEN results \o ret ELSE << >>
            /\ retries' = 0
            /\ halt' = "running"
            /\ UNCHANGED << variants, hasV1, hasBase, caught >>
       ELSE Exit("finished")
  ELSE /\ pc' = "xvi"
       /\ mode' = "ext"
       /\ checked' = nx.m
       /\ pos' = nx.pos
       /\ i' = nx.i
       /\ existingNumbers' = nx.ex
       /\ updated' = nx.upd
       /\ modified' = nx.mod
       /\ probed' = IF nx.pos = pos /\ mode = "ext"
                    THEN Append(probed, ExtSlug(nx.m, nx.pos, nx.i))
                    ELSE << ExtSlug(nx.m, nx.pos, nx.i) >>
       /\ delays' = IF nx.pos = pos /\ mode = "ext"
                    THEN Append(delays, Jitter)
                    ELSE << Jitter >>
       /\ results' = IF nx.pos = pos /\ mode = "ext"
                     THEN results \o ret
                     ELSE << >>
       /\ retries' = 0
       /\ halt' = "running"
       /\ UNCHANGED << variants, hasV1, hasBase, caught >>

\* choice 3: checkV6toV9(). how = "plain": the answers of the remote are not
\* recorded; "tracked": they are; "replay": the remote answers this pass as it
\* answered the tracked pass that ran just before and ended by itself.
StartExt(how) ==
  /\ mode = "idle"
  /\ Chosen
  /\ how = "replay" => seen.of = "ext"
  /\ seen' = IF how = "replay" THEN seen
             ELSE IF how = "tracked" THEN [of |-> "ext", answers |-> {}]
             ELSE NoSeen
  /\ LET nx == ExtNext(LoadJson(file, << >>), 1, 0, {}, FALSE, FALSE)
     IN  /\ ExtGoOn(nx, << >>)
         /\ IF nx.done /\ ~SavesAfterPass(nx.mod)
            THEN TRUE
            ELSE wrote' = FALSE /\ replay' = IF how = "replay" THEN halt ELSE "no"
  /\ UNCHANGED << file, report, completed, runVars >>

\* the answer the last pass recorded for url: "E", "N", "F", or "?" for none
SeenAnswer(url) ==
  IF \E a \in seen.answers : a.url = url
  THEN (CHOOSE a \in seen.answers : a.url = url).ans
  ELSE "?"

Allowed(url, ans) == replay # "no" => SeenAnswer(url) \in { "?", ans }

Record(url, ans) ==
  seen' = IF replay # "no" \/ seen.of # "ext" THEN seen
          ELSE [seen EXCEPT !.answers = @ \cup { [url |-> url, ans |-> ans] }]

\* a pass that writes the mapping to the file as soon as a probe has returned
ExtProbe_SavesAtOnce(step) ==
  LET entry == checked[pos].val
      slugVi == ExtSlug(checked, pos, i)
      pushed == PushNew(entry.variants, slugVi)
      m2 == IF step.value
            THEN Put(checked, checked[pos].key, [entry EXCEPT !.variants = pushed])
            ELSE checked
      upd2 == updated \/ (step.value /\ pushed # entry.variants)
      nx == ExtNext(m2, pos, i + 1, existingNumbers, upd2, modified)
  IN  /\ pc = "xvi"
      /\ step \in Steps(slugVi)
      /\ IF step.again THEN Absorb
         ELSE /\ Allowed(slugVi, IF step.value THEN "E" ELSE "N")
              /\ Record(slugVi, IF step.value THEN "E" ELSE "N")
              /\ ExtGoOn(nx, << step.value >>)
              /\ IF nx.done /\ ~SavesAfterPass(nx.mod)
                 THEN TRUE
                 ELSE UNCHANGED << wrote, replay >>
              /\ file' = SaveJson(m2)
              /\ UNCHANGED << report, completed, probeVars >>

\* if (await isDirectPage(slugVi)) { ... } in for (let i = 6; i <= 9; i++),
\* and the loops up to the next probe
ExtProbe(step) ==
  LET entry == checked[pos].val
      slugVi == ExtSlug(checked, pos, i)
      pushed == PushNew(entry.variants, slugVi)
      m2 == IF step.value
            THEN Put(checked, checked[pos].key, [entry EXCEPT !.variants = pushed])
            ELSE checked
      upd2 == updated \/ (step.value /\ pushed # entry.variants)
      nx == ExtNext(m2, pos, i + 1, existingNumbers, upd2, modified)
  IN  /\ pc = "xvi"
      /\ step \in Steps(slugVi)
      /\ IF step.again THEN Absorb
         ELSE /\ Allowed(slugVi, IF step.value THEN "E" ELSE "N")
              /\ Record(slugVi, IF step.value THEN "E" ELSE "N")
              /\ ExtGoOn(nx, << step.value >>)
              /\ IF nx.done /\ ~SavesAfterPass(nx.mod)
                 THEN TRUE
                 ELSE UNCHANGED << wrote, replay >>
              /\ UNCHANGED << file, report, completed, probeVars >>

\* fetch or res.text() rejects: checkV6toV9 has no try block, the run ends
ExtProbeThrows ==
  /\ pc = "xvi"
  /\ Allowed(ExtSlug(checked, pos, i), "F")
  /\ Record(ExtSlug(checked, pos, i), "F")
  /\ Exit("uncaught")
  /\ UNCHANGED << file, report, completed, probeVars >>

\* await saveJson(CHECKED_FILE, checked) under if (modified)
ExtSaveChecked ==
  /\ pc = "xsave"
  /\ file' = SaveJson(checked)
  /\ pc' = "xsaveVariants"
  /\ wrote' = TRUE
  /\ UNCHANGED << report, mode, checked, pos, i, variants, hasV1, hasBase, caught,
                  probed, delays, results, existingNumbers, updated, modified, retries,
                  completed, halt, seen, replay, probeVars >>

\* await saveVariants(checked), and checkV6toV9 returns
ExtSaveVariants ==
  /\ pc = "xsaveVariants"
  /\ report' = SaveJson(VariantsOf(checked))
  /\ Exit("finished")
  /\ UNCHANGED << file, completed, seen, probeVars >>

\* choice 4: updateReadme() up to await Bun.write: it reads the two files and
\* builds the section, or ends with the exception of a push
UpdateReadme ==
  /\ mode = "idle"
  /\ Len(readme) <= MaxReadme
  /\ LET grouped == Grouped(LoadJson(report, << >>))
     IN  IF grouped.threw
         THEN Exit("uncaught") /\ section' = NoSection
         ELSE /\ section' = SectionText(grouped.groups)
              /\ mode' = "readme"
              /\ pc' = "write"
              /\ halt' = "running"
              /\ UNCHANGED << checked, pos, i, variants, hasV1, hasBase, caught, probed,
                              delays, results, existingNumbers, updated, modified,
                              retries, wrote, replay >>
  /\ seen' = NoSeen
  /\ UNCHANGED << file, report, completed, interrupts, purl, resps, sleeps,
                  nreq, pret, readme, calm, json, loaded, since >>

\* await Bun.write(README_FILE, readme) returns: README.md holds the text
\* with the section spliced in
WriteReadme ==
  /\ mode = "readme"
  /\ pc = "write"
  /\ readme' = Splice(readme, section)
  /\ section' = NoSection
  /\ Exit("reported")
  /\ since' = 0
  /\ UNCHANGED << file, report, completed, seen, interrupts, purl, resps, sleeps,
                  nreq, pret, calm, json, loaded >>

\* await Bun.write(README_FILE, readme) rejects, README.md is as it was
UpdateReadmeThrows ==
  /\ mode = "readme"
  /\ pc = "write"
  /\ section' = NoSection
  /\ Exit("uncaught")
  /\ UNCHANGED << file, report, completed, seen, interrupts, purl, resps, sleeps,
                  nreq, pret, readme, calm, json, loaded, since >>

\* any other choice: console.log("Invalid choice")
InvalidChoice ==
  /\ mode = "idle"
  /\ Chosen
  /\ Exit("invalid")
  /\ seen' = NoSeen
  /\ UNCHANGED << file, report, completed, runVars >>

\* choice 9: the first saveJson rejects, the two files are as they were
StartClearThrows ==
  /\ mode = "idle"
  /\ Chosen
  /\ Exit("uncaught")
  /\ seen' = NoSeen
  /\ UNCHANGED << file, report, completed, runVars >>

----------------------------------------------------------------------------
(* The program: one menu choice after another, on the files the last left *)

Init ==
  /\ file = Missing
  /\ report = Missing
  /\ mode = "idle"
  /\ pc = "idle"
  /\ checked = << >>
  /\ pos = 0
  /\ i = 0
  /\ variants = << >>
  /\ hasV1 = "unset"
  /\ hasBase = "unset"
  /\ caught = {}
  /\ probed = << >>
  /\ delays = << >>
  /\ results = << >>
  /\ existingNumbers = {}
  /\ updated = FALSE
  /\ modified = FALSE
  /\ retries = 0
  /\ completed = {}
  /\ halt = "none"
  /\ wrote = FALSE
  /\ seen = NoSeen
  /\ replay = "no"
  /\ interrupts = 0
  /\ purl = << >>
  /\ resps = << >>
  /\ sleeps = << >>
  /\ nreq = 0
  /\ pret = "none"
  /\ readme = NoReadme
  /\ section = NoSection
  /\ calm = FALSE
  /\ json = NoCardSet
  /\ loaded = << >>
  /\ since = 0

Step == [again : BOOLEAN, sleep : { 0, Cooldown429, Cooldown403 }, value : BOOLEAN]

Next ==
  \/ \E m \in { "scan", "retry" } : StartScan(m)
  \/ StartClear
  \/ ClearVariants
  \/ StartExt("plain")
  \/ \E step \in Step : ProbeV1(step)
  \/ \E step \in Step : ProbeBase(step)
  \/ \E step \in Step : ProbeVi(step)
  \/ ProbeThrows
  \/ SaveChecked
  \/ SaveVariants
  \/ \E step \in Step : ExtProbe(step)
  \/ ExtProbeThrows
  \/ ExtSaveChecked
  \/ ExtSaveVariants
  \/ SleepAfterItem
  \/ WriteThrows
  \/ StartClearThrows
  \/ UpdateReadme
  \/ WriteReadme
  \/ UpdateReadmeThrows
  \/ InvalidChoice
  \/ Interrupt

Spec == Init /\ [][Next]_vars

\* the same program, the environment also repeating its answers to a pass
NextTwice ==
  \/ \E m \in { "scan", "retry" } : StartScan(m)
  \/ StartClear
  \/ ClearVariants
  \/ \E how \in { "tracked", "replay" } : StartExt(how)
  \/ \E step \in Step : ProbeV1(step)
  \/ \E step \in Step : ProbeBase(step)
  \/ \E step \in Step : ProbeVi(step)
  \/ ProbeThrows
  \/ SaveChecked
  \/ SaveVariants
  \/ \E step \in Step : ExtProbe(step)
  \/ ExtProbeThrows
  \/ ExtSaveChecked
  \/ ExtSaveVariants
  \/ SleepAfterItem
  \/ WriteThrows
  \/ StartClearThrows
  \/ UpdateReadme
  \/ WriteReadme
  \/ UpdateReadmeThrows
  \/ InvalidChoice
  \/ Interrupt

SpecTwice == Init /\ [][NextTwice]_vars

----------------------------------------------------------------------------
(* isDirectPage on its own: one call, on any sequence of responses *)

\* a page the remote may serve, one it never serves, and a bare slug
ProbeUrls ==
  { VersionedSlug(Items[1], 1), VersionedSlug(Items[1], 3), VersionedSlug(Items[3], 0) }

InitProbe ==
  /\ file = Missing
  /\ report = Missing
  /\ mode = "idle"
  /\ pc = "idle"
  /\ checked = << >>
  /\ pos = 0
  /\ i = 0
  /\ variants = << >>
  /\ hasV1 = "unset"
  /\ hasBase = "unset"
  /\ caught = {}
  /\ probed = << >>
  /\ delays = << >>
  /\ results = << >>
  /\ existingNumbers = {}
  /\ updated = FALSE
  /\ modified = FALSE
  /\ retries = 0
  /\ completed = {}
  /\ halt = "none"
  /\ wrote = FALSE
  /\ seen = NoSeen
  /\ replay = "no"
  /\ interrupts = 0
  /\ purl \in ProbeUrls
  /\ resps = << >>
  /\ sleeps = << >>
  /\ nreq = 0
  /\ pret = "pending"
  /\ readme = NoReadme
  /\ section = NoSection
  /\ calm = FALSE
  /\ json = NoCardSet
  /\ loaded = << >>
  /\ since = 0

\* await fetch(url, ...) resolves to res, and the rest of the iteration
Fetch(res) ==
  LET step == IsDirectPageStep(purl, res)
  IN  /\ pret = "pending"
      /\ res \in Responses(purl)
      /\ IsTransient(res) => Len(sleeps) < MaxProbeRetries
      /\ nreq' = nreq + 1
      /\ resps' = Append(resps, res)
      /\ IF step.again
         THEN sleeps' = Append(sleeps, step.sleep) /\ pret' = "pending"
         ELSE sleeps' = sleeps /\ pret' = IF step.value THEN "true" ELSE "false"
      /\ UNCHANGED << scanVars, purl, readme, section, calm >>

\* await fetch(url, ...) rejects: isDirectPage throws
FetchThrows ==
  /\ pret = "pending"
  /\ nreq' = nreq + 1
  /\ pret' = "throw"
  /\ UNCHANGED << scanVars, purl, resps, sleeps, readme, section, calm >>

NextProbe ==
  \/ \E res \in [status : StatusCodes, url : ProbeUrls \cup { FallbackUrl }, body : Bodies] :
       Fetch(res)
  \/ FetchThrows

SpecProbe == InitProbe /\ [][NextProbe]_vars

----------------------------------------------------------------------------
(* isDirectPage on its own, with no bound on the responses: the remote answers
   what it likes until it is calm, and from then on never 429 or 403. Only the
   last response and the last sleep are kept, and nreq stops at MaxCount. *)

InitLive ==
  /\ InitProbe

\* a loop that gives up once it has counted MaxCount requests
Iterate_GivesUp(res) ==
  LET step == IsDirectPageStep(purl, res)
      last == nreq >= MaxCount
  IN  /\ pret = "pending"
      /\ res \in Responses(purl)
      /\ calm => ~IsTransient(res)
      /\ nreq' = Min({ nreq + 1, MaxCount })
      /\ resps' = << res >>
      /\ IF step.again /\ ~last
         THEN sleeps' = << step.sleep >> /\ pret' = "pending"
         ELSE sleeps' = sleeps /\ pret' = IF step.value THEN "true" ELSE "false"
      /\ UNCHANGED << scanVars, purl, readme, section, calm >>

\* one iteration of while (true) of isDirectPage with the response res
Iterate(res) ==
  LET step == IsDirectPageStep(purl, res)
  IN  /\ pret = "pending"
      /\ res \in Responses(purl)
      /\ calm => ~IsTransient(res)
      /\ nreq' = Min({ nreq + 1, MaxCount })
      /\ resps' = << res >>
      /\ IF step.again
         THEN sleeps' = << step.sleep >> /\ pret' = "pending"
         ELSE sleeps' = sleeps /\ pret' = IF step.value THEN "true" ELSE "false"
      /\ UNCHANGED << scanVars, purl, readme, section, calm >>

\* the remote stops limiting and blocking
Calm ==
  /\ ~calm
  /\ calm' = TRUE
  /\ UNCHANGED << scanVars, purl, resps, sleeps, nreq, pret, readme, section >>

Answers == [status : StatusCodes, url : ProbeUrls \cup { FallbackUrl }, body : Bodies]

NextLive ==
  \/ \E res \in Answers : Iterate(res)
  \/ Calm

\* await fetch and Bun.sleep return: an iteration that can be done is done
SpecLive ==
  InitLive /\ [][NextLive]_vars /\ WF_vars(\E res \in Answers : Iterate(res))

----------------------------------------------------------------------------
(* saveVariants and updateReadme on their own: the last save of a scan over
   any mapping, then choice 4 *)

\* the records scanCards may have written for an item (a set of versions that
\* the remote served), "none" for no record
RecordsOf(item) ==
  { [status |-> "none", variants |-> << >>], ErrorEntry, NoVariantsEntry }
    \cup { OkEntry([k \in 1..Len(vs) |-> VersionedSlug(item, vs[k])], item.set) :
             vs \in { << 1 >>, << 1, 3 >>, << 1, 2, 4 >> } }

\* the mapping with the records choice gives to the first n items
RECURSIVE MappingOf(_, _)
MappingOf(choice, n) ==
  IF n = 0 THEN << >>
  ELSE IF choice[n].status = "none" THEN MappingOf(choice, n - 1)
  ELSE Append(MappingOf(choice, n - 1), [key |-> Items[n].card, val |-> choice[n]])

Mappings ==
  { MappingOf(choice, NItems) :
      choice \in { c \in [1..NItems -> UNION { RecordsOf(Items[k]) : k \in 1..NItems }] :
                    \A k \in 1..NItems : c[k] \in RecordsOf(Items[k]) } }

\* what README.md may hold before choice 4: nothing, a text without the
\* markers, a text with the markers around an older section
Readmes ==
  { NoReadme,
    << "#", " ", "C", "a", "r", "d", "s" >>,
    << "#", " ", "C", "a", "r", "d", "s" >> \o StartMarker
      \o << "\n", "#", "#", " ", "V", "a", "r", "i", "a", "n", "t", "s", " ", "F", "o", "u", "n", "d", "\n", "\n", "#", "#", "#", " ", "O", "l", "d", "\n", "\n" >>
      \o EndMarker \o << "L", "i", "c", "e", "n", "s", "e" >> }

\* items of an earlier ./card-sets, whose records the store still holds: a
\* card with a replacement pattern in its name, a set named as a property
\* every object inherits, and a set whose name spells the end marker
EarlierItems ==
  { [set |-> << "S", "-", "V" >>, card |-> << "P", "a", "y", "$", "&", "D", "a", "y", "-", "S", "V", "0", "0", "1" >>],
    [set |-> << "c", "o", "n", "s", "t", "r", "u", "c", "t", "o", "r" >>, card |-> << "J", "y", "n", "x", "-", "C", "0", "0", "1" >>],
    [set |-> EndMarker, card |-> << "M", "u", "k", "-", "E", "0", "0", "1" >>] }

\* the records of earlier runs at the front of the mapping: none, or the ok
\* record of one such item with V1 and V2
EarlierMappings ==
  { << >> } \cup
  { << [key |-> item.card,
        val |-> OkEntry(<< VersionedSlug(item, 1), VersionedSlug(item, 2) >>, item.set)] >> :
      item \in EarlierItems }

\* scanCards has just written the mapping, with the record of item pos
InitReport ==
  /\ \E earlier \in EarlierMappings : \E m \in Mappings : checked = earlier \o m
  /\ pos \in 1..NItems
  /\ HasKey(checked, Items[pos].card)
  /\ file = SaveJson(checked)
  /\ report = Missing
  /\ mode = "scan"
  /\ pc = "saveVariants"
  /\ i = 0
  /\ variants = << >>
  /\ hasV1 = "unset"
  /\ hasBase = "unset"
  /\ caught = {}
  /\ probed = << >>
  /\ delays = << >>
  /\ results = << >>
  /\ existingNumbers = {}
  /\ updated = FALSE
  /\ modified = FALSE
  /\ retries = 0
  /\ completed = { Items[pos].card }
  /\ halt = "running"
  /\ wrote = TRUE
  /\ seen = NoSeen
  /\ replay = "no"
  /\ interrupts = 0
  /\ purl = << >>
  /\ resps = << >>
  /\ sleeps = << >>
  /\ nreq = 0
  /\ pret = "none"
  /\ readme \in Readmes
  /\ section = NoSection
  /\ calm = FALSE
  /\ json = NoCardSet
  /\ loaded = << >>
  /\ since = 0

NextReport ==
  \/ SaveVariants
  \/ SleepAfterItem
  \/ WriteThrows
  \/ UpdateReadmeThrows
  \/ Interrupt
  \/ UpdateReadme
  \/ WriteReadme

SpecReport == InitReport /\ [][NextReport]_vars

----------------------------------------------------------------------------
(* Choice 9 over a store that earlier runs have filled *)

\* the store holds records, the report is the one saveVariants wrote for them,
\* and no run is in progress
InitClear ==
  /\ \E m \in Mappings \ { << >> } :
       /\ file = SaveJson(m)
       /\ report = SaveJson(VariantsOf(m))
       /\ completed = { m[k].key : k \in 1..Len(m) }
  /\ mode = "idle"
  /\ pc = "idle"
  /\ checked = << >>
  /\ pos = 0
  /\ i = 0
  /\ variants = << >>
  /\ hasV1 = "unset"
  /\ hasBase = "unset"
  /\ caught = {}
  /\ probed = << >>
  /\ delays = << >>
  /\ results = << >>
  /\ existingNumbers = {}
  /\ updated = FALSE
  /\ modified = FALSE
  /\ retries = 0
  /\ halt = "finished"
  /\ wrote = FALSE
  /\ seen = NoSeen
  /\ replay = "no"
  /\ interrupts = 0
  /\ purl = << >>
  /\ resps = << >>
  /\ sleeps = << >>
  /\ nreq = 0
  /\ pret = "none"
  /\ readme = NoReadme
  /\ section = NoSection
  /\ calm = FALSE
  /\ json = NoCardSet
  /\ loaded = << >>
  /\ since = 0

NextClear ==
  \/ StartClear
  \/ ClearVariants
  \/ \E step \in Step : ProbeV1(step)
  \/ \E step \in Step : ProbeBase(step)
  \/ \E step \in Step : ProbeVi(step)
  \/ ProbeThrows
  \/ SaveChecked
  \/ SaveVariants
  \/ SleepAfterItem
  \/ WriteThrows
  \/ StartClearThrows
  \/ Interrupt

SpecClear == InitClear /\ [][NextClear]_vars

----------------------------------------------------------------------------
(* scanCards when checked-cards.json cannot be loaded *)

\* the file is absent, cannot be read, or holds the cut text of some mapping
Unloadable ==
  { Missing, Unreadable }
    \cup { Truncated(MappingOf(c, NItems)) :
             c \in [1..NItems -> { ErrorEntry, NoVariantsEntry }] }

InitLoad ==
  /\ file \in Unloadable
  /\ report = Missing
  /\ mode = "idle"
  /\ pc = "idle"
  /\ checked = << >>
  /\ pos = 0
  /\ i = 0
  /\ variants = << >>
  /\ hasV1 = "unset"
  /\ hasBase = "unset"
  /\ caught = {}
  /\ probed = << >>
  /\ delays = << >>
  /\ results = << >>
  /\ existingNumbers = {}
  /\ updated = FALSE
  /\ modified = FALSE
  /\ retries = 0
  /\ completed = {}
  /\ halt = "none"
  /\ wrote = FALSE
  /\ seen = NoSeen
  /\ replay = "no"
  /\ interrupts = 0
  /\ purl = << >>
  /\ resps = << >>
  /\ sleeps = << >>
  /\ nreq = 0
  /\ pret = "none"
  /\ readme = NoReadme
  /\ section = NoSection
  /\ calm = FALSE
  /\ json = NoCardSet
  /\ loaded = << >>
  /\ since = 0

NextLoad ==
  \/ \E m \in { "scan", "retry" } : StartScan(m)
  \/ \E step \in Step : ProbeV1(step)
  \/ \E step \in Step : ProbeBase(step)
  \/ \E step \in Step : ProbeVi(step)
  \/ ProbeThrows
  \/ SaveChecked
  \/ SaveVariants
  \/ SleepAfterItem
  \/ WriteThrows
  \/ Interrupt

SpecLoad == InitLoad /\ [][NextLoad]_vars

----------------------------------------------------------------------------
(* loadAllCards on its own: one card-set file of one or two lines *)

LinePikachu == << "7", " ", "P", "i", "k", "a", "c", "h", "u" >>

LineMewtwo == << "1", "2", " ", "M", "e", "w", "t", "w", "o", " ", "(", "H", "o", "l", "o", ")" >>

LineAbra == << "4", "3", " ", "A", "b", "r", "a" >>

LineFarfetchd == << "3", " ", "F", "a", "r", "f", "e", "t", "c", "h", "'", "d" >>

LineMewEx == << "8", " ", "M", "e", "w", " ", "[", "a", "]", " ", "e", "x" >>

LineTwoSpaces == << "5", " ", "M", "e", "w", " ", " ", "e", "x" >>

LineOnix == << "1", "0", "1", " ", "O", "n", "i", "x", " ", "(", " ", "x", " ", ")" >>

LineNoOrdinal == << "P", "i", "k", "a", "c", "h", "u" >>

LineGallery == << "T", "G", "0", "1", " ", "P", "i", "k", "a", "c", "h", "u" >>

LineEmpty == << >>

LineTab == << "7", "\t", "P", "i", "k", "a", "c", "h", "u" >>

LineNoBreak == << "1", "2", "U+00A0", "M", "e", "w", "t", "w", "o", "\t", " ", "(", "H", "o", "l", "o", ")" >>

\* lines of a card-set file: names with and without annotations, an
\* apostrophe, a run of spaces, brackets that stand alone, lines whose
\* first token is not a number, and lines with a tab and a no-break space
\* between the tokens
Lines ==
  { LinePikachu, LineMewtwo, LineAbra, LineFarfetchd, LineMewEx,
    LineTwoSpaces, LineOnix, LineNoOrdinal, LineGallery, LineEmpty,
    LineTab, LineNoBreak }

CodeSVI == << "S", "V", "I" >>

CardSets ==
  { [set |-> << "S", "-", "V" >>, code |-> CodeSVI, cards |-> cards] :
      cards \in { << a >> : a \in Lines } \cup { << a, b >> : a, b \in Lines } }

InitCatalog ==
  /\ json \in CardSets
  /\ loaded = << >>
  /\ since = 0
  /\ file = Missing
  /\ report = Missing
  /\ mode = "idle"
  /\ pc = "idle"
  /\ checked = << >>
  /\ pos = 0
  /\ i = 0
  /\ variants = << >>
  /\ hasV1 = "unset"
  /\ hasBase = "unset"
  /\ caught = {}
  /\ probed = << >>
  /\ delays = << >>
  /\ results = << >>
  /\ existingNumbers = {}
  /\ updated = FALSE
  /\ modified = FALSE
  /\ retries = 0
  /\ completed = {}
  /\ halt = "none"
  /\ wrote = FALSE
  /\ seen = NoSeen
  /\ replay = "no"
  /\ interrupts = 0
  /\ purl = << >>
  /\ resps = << >>
  /\ sleeps = << >>
  /\ nreq = 0
  /\ pret = "none"
  /\ readme = NoReadme
  /\ section = NoSection
  /\ calm = FALSE

\* loadAllCards over the one file of ./card-sets
LoadAllCards ==
  /\ loaded = << >>
  /\ json # NoCardSet
  /\ loaded' = << [set |-> json.set, code |-> json.code,
                  cards |-> FormattedCards(json.cards, json.code)] >>
  /\ UNCHANGED << file, report, mode, pc, checked, pos, i, variants, hasV1, hasBase,
                  caught, probed, delays, results, existingNumbers, updated, modified,
                  retries, completed, halt, wrote, seen, replay, interrupts,
                  purl, resps, sleeps, nreq, pret, readme, section, calm, json, since >>

NextCatalog == LoadAllCards

SpecCatalog == InitCatalog /\ [][NextCatalog]_vars

----------------------------------------------------------------------------
(* Properties *)

Statuses(rs) == [k \in 1..Len(rs) |-> rs[k].status]

\* the content of checked-cards.json, an absent file being the empty mapping
Persisted == LoadJson(file, << >>)

InMainScan == mode \in { "scan", "retry", "clear" }

AtProbe == pc \in { "v1", "base", "vi" }

\* the catalog item of a card
ItemOf(card) == Items[CHOOSE k \in 1..NItems : Items[k].card = card]

\* the V1 URL of an item, built from the last hyphen of its slug
LastHyphen(card) ==
  CHOOSE p \in 1..Len(card) :
    card[p] = "-" /\ \A q \in (p + 1)..Len(card) : card[q] # "-"

UrlOf(item, n) ==
  LET p == LastHyphen(item.card)
  IN  BASE_URL \o item.set \o << "/" >> \o SubSeq(item.card, 1, p)
        \o << "V" >> \o Decimal(n) \o SubSeq(item.card, p, Len(item.card))

Versions(vs) == [k \in 1..Len(vs) |-> VersionOf(vs[k])]

\* C1: during a main scan the file holds the whole mapping at every probe (it
\* was written after the last processed item and before the probes of this
\* one); whenever the process stops, the file holds a record of every item
\* whose processing completed; and a scan that keeps the cache never probes
\* an item whose processing completed.
C1_DurableCheckpoint ==
  /\ (InMainScan /\ AtProbe) => checked = Persisted
  /\ \A c \in completed : HasKey(Persisted, c)
  /\ (mode \in { "scan", "clear" } /\ AtProbe) => Item.card \notin completed

\* a scan restarted after a run was ended from outside (the process killed, a
\* write rejected) goes straight to the second item, the first having
\* completed earlier
C1_Witness ==
  /\ mode = "scan"
  /\ interrupts >= 1
  /\ pc = "v1"
  /\ pos = 2
  /\ ~wrote
  /\ Items[1].card \in completed
  /\ Items[2].card \notin completed

\* the skip policy as the specification words it, for the mode md
Skipped(m, card, md) ==
  IF ~HasKey(m, card) THEN FALSE
  ELSE IF md = "retry" THEN Get(m, card).status # "error"
  ELSE TRUE

\* C2: when scanCards comes to the first probe of an item, every item it
\* passed over since the last processed one (or the start of the catalog) has
\* a record, and in retry-errors-only mode one whose status is not error; the
\* item it probes has no record, or in retry-errors-only mode an error
\* record; the records are those of the file; when it ends after an item,
\* every item left is one that the policy skips. A scan changes the record
\* of the current item only.
C2_SkipPolicy ==
  [][ /\ (pc' = "v1" /\ pc \in { "idle", "clear2", "sleep" }) =>
           LET from == IF pc = "sleep" THEN pos ELSE 0
           IN  /\ pos' > from
               /\ \A k \in (from + 1)..(pos' - 1) : Skipped(checked', Items[k].card, mode')
               /\ ~Skipped(checked', Items[pos'].card, mode')
               /\ checked' = LoadJson(file', << >>)
               /\ probed' = << UrlOf(Items[pos'], 1) >>
      /\ (pc = "sleep" /\ halt' = "finished") =>
           \A k \in (pos + 1)..NItems : Skipped(checked, Items[k].card, mode)
      /\ (InMainScan /\ mode' = mode /\ pc # "clear2") =>
           \A k \in 1..NItems :
             k # pos =>
               /\ HasKey(checked', Items[k].card) = HasKey(checked, Items[k].card)
               /\ HasKey(checked, Items[k].card) =>
                    Get(checked', Items[k].card) = Get(checked, Items[k].card)
    ]_vars

\* a retry-errors-only run that has written nothing is at the first probe of
\* B: A has its record, B an error record, C none
C2_Witness ==
  /\ mode = "retry"
  /\ pc = "v1"
  /\ pos = 2
  /\ ~wrote
  /\ HasKey(checked, Items[1].card) /\ Get(checked, Items[1].card).status = "ok"
  /\ HasKey(checked, Items[2].card) /\ Get(checked, Items[2].card).status = "error"
  /\ ~HasKey(checked, Items[3].card)

\* C3: in a main scan, the step in which a probe raises a fault sets the
\* record of the item to status error with no variants and goes to the save;
\* unless the process is killed or the write rejected, the save of such an
\* item writes the mapping with that record to the file, the report and the
\* sleep follow, and after them the scan goes on: no later item without a
\* record is passed over, and the run does not end while there is one.
C3_FaultRecorded ==
  [][ /\ caught' # caught /\ caught' # {} =>
           /\ InMainScan /\ AtProbe
           /\ caught' = caught \cup { Item.card }
           /\ mode' = mode /\ pos' = pos /\ pc' = "save"
           /\ HasKey(checked', Item.card)
           /\ Get(checked', Item.card) = [status |-> "error", variants |-> << >>]
      /\ (InMainScan /\ pc = "save" /\ Item.card \in caught /\ interrupts' = interrupts) =>
           /\ pc' = "saveVariants"
           /\ HasKey(LoadJson(file', << >>), Item.card)
           /\ Get(LoadJson(file', << >>), Item.card) = [status |-> "error", variants |-> << >>]
           /\ file' = SaveJson(checked)
      /\ (InMainScan /\ pc = "saveVariants" /\ Item.card \in caught
            /\ interrupts' = interrupts) =>
           mode' = mode /\ pc' = "sleep" /\ pos' = pos /\ file' = file
      /\ (InMainScan /\ pc = "sleep" /\ Item.card \in caught
            /\ interrupts' = interrupts) =>
           \A k \in (pos + 1)..NItems :
             ~HasKey(checked, Items[k].card) =>
               mode' = mode /\ pc' = "v1" /\ pos < pos' /\ pos' <= k
    ]_vars

\* the probes of the first item raised a fault, its error record is in the
\* file and the scan is at the first probe of the second item
C3_Witness ==
  /\ mode = "scan"
  /\ pc = "v1"
  /\ pos = 2
  /\ Items[1].card \in caught
  /\ HasKey(Persisted, Items[1].card)
  /\ Get(Persisted, Items[1].card) = [status |-> "error", variants |-> << >>]

\* C4: every record of the checkpoint file with status ok has a non-empty
\* variants list whose first element is the V1 URL of its item; every record
\* with status error or no-variants has an empty variants list.
C4_RecordShape ==
  \A k \in 1..Len(Persisted) :
    LET rec == Persisted[k].val
    IN  /\ rec.status \in { "ok", "error", "no-variants" }
        /\ rec.status = "ok" =>
             /\ Len(rec.variants) >= 1
             /\ rec.variants[1] = UrlOf(ItemOf(Persisted[k].key), 1)
        /\ rec.status \in { "error", "no-variants" } => rec.variants = << >>

\* the file holds an ok record that the extended pass added to, together
\* with an error record and a no-variants record
C4_Witness ==
  /\ Len(Persisted) = 3
  /\ \E k \in 1..3 : Persisted[k].val.status = "ok" /\ Len(Persisted[k].val.variants) = 6
  /\ \E k \in 1..3 : Persisted[k].val.status = "error"
  /\ \E k \in 1..3 : Persisted[k].val.status = "no-variants"

\* C5: in the checkpoint file the variants of every record carry a version
\* each, in strictly ascending order (so no version twice), also after the
\* extended pass has added versions of 6..9.
C5_VariantsAscending ==
  \A k \in 1..Len(Persisted) :
    LET vs == Persisted[k].val.variants
    IN  /\ \A j \in 1..Len(vs) : HasVersion(vs[j])
        /\ \A j \in 1..Len(vs) : \A l \in 1..Len(vs) :
             j < l => VersionOf(vs[j]) < VersionOf(vs[l])

\* an extended pass has written V6 in front of the V8 that an earlier pass
\* had found: the report, not yet rewritten, still has the list without V6
C5_Witness ==
  /\ pc = "xsaveVariants"
  /\ Len(Persisted) >= 1
  /\ Versions(Persisted[1].val.variants) = << 1, 2, 4, 5, 6, 8 >>
  /\ Len(LoadJson(report, << >>)) >= 1
  /\ Versions(LoadJson(report, << >>)[1].variants) = << 1, 2, 4, 5, 8 >>

\* C6: once the V1 probe has returned Exists, the probes issued for the item
\* are those of V1, V2, ... in this order, one each and one more than have
\* returned; the search has ended only when all of V2..V5 were probed; and
\* the record it writes is ok with V1 followed by the Vi whose probe returned
\* Exists, in ascending order.
C6_VariantSearch ==
  (InMainScan /\ hasV1 = "true" /\ Item.card \notin caught) =>
    /\ results[1]
    /\ pc = "vi" =>
         /\ i \in 2..5
         /\ Len(results) = i - 1
         /\ probed = [n \in 1..i |-> UrlOf(Item, n)]
    /\ pc \in { "save", "saveVariants", "sleep" } =>
         /\ Len(results) = 5
         /\ probed = [n \in 1..5 |-> UrlOf(Item, n)]
         /\ HasKey(checked, Item.card)
         /\ Get(checked, Item.card).status = "ok"
         /\ Get(checked, Item.card).variants =
              SelectSeq(probed, LAMBDA u : \E n \in 1..5 : u = probed[n] /\ results[n])

\* Exists for V1, V2, V4 and NotFound for V3, V5 gives [V1, V2, V4]
C6_Witness ==
  /\ InMainScan
  /\ pc = "save"
  /\ results = << TRUE, TRUE, FALSE, TRUE, FALSE >>
  /\ Get(checked, Item.card).variants = << UrlOf(Item, 1), UrlOf(Item, 2), UrlOf(Item, 4) >>

\* C7: isDirectPage returns nothing for a 429 or a 403. When it returns, it has
\* issued one request per response received, every response but the last was a
\* 429 or a 403 and was followed by one sleep (60 s after a 429, 300 s after a
\* 403), and the value returned is the classification of the last response.
C7_TransientsAbsorbed ==
  /\ nreq = Len(resps) + (IF pret = "throw" THEN 1 ELSE 0)
  /\ pret = "pending" =>
       /\ \A k \in 1..Len(resps) : resps[k].status \in { 429, 403 }
       /\ Len(sleeps) = Len(resps)
  /\ pret \in { "true", "false" } =>
       /\ Len(resps) >= 1
       /\ \A k \in 1..(Len(resps) - 1) : resps[k].status \in { 429, 403 }
       /\ resps[Len(resps)].status \notin { 429, 403 }
       /\ Len(sleeps) = Len(resps) - 1
       /\ (pret = "true") = Classify(purl, resps[Len(resps)])
  /\ \A k \in 1..Len(sleeps) :
       sleeps[k] = IF resps[k].status = 429 THEN 60000 ELSE 300000

\* [429, 429, 200] returns Exists after three requests and two cooldowns
C7_Witness ==
  /\ Statuses(resps) = << 429, 429, 200 >>
  /\ pret = "true"
  /\ nreq = 3
  /\ sleeps = << 60000, 60000 >>

\* C8: for a response that is neither 429 nor 403 the probe returns NotFound
\* if the response URL differs from the requested one; otherwise NotFound if
\* the body holds the invalid-product marker, whatever the status; otherwise
\* Exists exactly when the status is 200.
C8_Classification ==
  pret \in { "true", "false" } =>
    LET res == resps[Len(resps)]
        marked == \E k \in 1..Len(res.body) : res.body[k] = "Invalid product!"
    IN  IF res.url # purl THEN pret = "false"
        ELSE IF marked THEN pret = "false"
        ELSE (pret = "true") = (res.status = 200)

\* a soft 404: status 200 at the requested URL, the marker in the body
C8_Witness ==
  /\ pret = "false"
  /\ LET res == resps[Len(resps)]
     IN  /\ res.status = 200
         /\ res.url = purl
         /\ res.body = << "<html>", "Invalid product!" >>

\* C9: when the processing of an item has gone to the save without a fault,
\* its record is ok exactly when the V1 probe returned Exists, no-variants
\* exactly when V1 returned NotFound and the bare slug returned Exists, error
\* exactly when both returned NotFound; and the bare slug is probed only
\* after V1 returned NotFound.
C9_StatusFromProbes ==
  (InMainScan /\ pos >= 1 /\ Item.card \notin caught) =>
    LET bare == BASE_URL \o Item.set \o << "/" >> \o Item.card
        v1 == Len(results) >= 1 /\ results[1]
        base == Len(results) >= 2 /\ probed[2] = bare /\ results[2]
    IN  /\ (\E n \in 1..Len(probed) : probed[n] = bare) =>
             Len(results) >= 1 /\ ~results[1] /\ hasV1 = "false"
        /\ hasBase # "unset" => hasV1 = "false"
        /\ pc \in { "save", "saveVariants", "sleep" } =>
             /\ Len(results) >= 1
             /\ probed[1] = UrlOf(Item, 1)
             /\ ~results[1] => Len(results) = 2 /\ probed[2] = bare
             /\ HasKey(checked, Item.card)
             /\ (Get(checked, Item.card).status = "ok") = v1
             /\ (Get(checked, Item.card).status = "no-variants") = (~v1 /\ base)
             /\ (Get(checked, Item.card).status = "error") = (~v1 /\ ~base)

\* V1 was not found, the bare slug was: the record is no-variants
C9_Witness ==
  /\ InMainScan
  /\ pc = "save"
  /\ results = << FALSE, TRUE >>
  /\ hasV1 = "false"
  /\ hasBase = "true"
  /\ Get(checked, Item.card) = [status |-> "no-variants", variants |-> << >>]

\* C10: an extended pass that follows an extended pass, the remote answering
\* each URL as it did then, writes neither file; if the first pass ended by
\* itself, the second changes no record of the mapping either.
C10_ExtendedPassIdempotent ==
  (mode = "ext" /\ replay # "no") =>
    /\ ~wrote
    /\ pc \notin { "xsave", "xsaveVariants" }
    /\ replay = "finished" =>
         /\ ~updated
         /\ ~modified
         /\ checked = Persisted

\* the second pass has had an answer, after a first pass that found a page
C10_Witness ==
  /\ mode = "ext"
  /\ replay = "finished"
  /\ pc = "xvi"
  /\ Len(results) >= 1
  /\ \E a \in seen.answers : a.ans = "E"

\* the record kv lists version n of its item
Lists(kv, n) ==
  \E j \in 1..Len(kv.val.variants) : kv.val.variants[j] = UrlOf(ItemOf(kv.key), n)

\* the records the extended pass is for
Eligible(kv) == kv.val.status = "ok" /\ Lists(kv, 5)

NoneExists(rs) == \A n \in 1..Len(rs) : ~rs[n]

\* C11: in an extended pass every probe is for a record of the file that is
\* ok and lists V5, and for a version of 6..9 that this record does not
\* list, the versions of one record being probed in ascending order; a
\* record that is not ok or lists no V5 is the same in memory and in the file
\* before and after every step; the record being probed is unchanged while
\* no probe for it has returned Exists; a step changes a record only if it
\* is the one being probed and one of its probes returned Exists; and the
\* file is written only when some record gained a variant.
C11_ExtendedPassFrame ==
  [][ mode = "ext" =>
        /\ Len(checked) = Len(Persisted)
        /\ pc = "xvi" =>
             /\ pos \in 1..Len(Persisted)
             /\ Eligible(Persisted[pos])
             /\ i \in 6..9
             /\ Len(probed) >= 1
             /\ probed[Len(probed)] = UrlOf(ItemOf(Persisted[pos].key), i)
             /\ \A n \in 1..Len(probed) :
                  \E v \in 6..9 :
                    /\ probed[n] = UrlOf(ItemOf(Persisted[pos].key), v)
                    /\ ~Lists(Persisted[pos], v)
                    /\ \A l \in 1..(n - 1) : VersionOf(probed[l]) < v
             /\ Len(results) = Len(probed) - 1
             /\ NoneExists(results) => checked[pos] = Persisted[pos] /\ ~updated
        /\ \A k \in 1..Len(Persisted) :
             /\ ~Eligible(Persisted[k]) =>
                  /\ checked[k] = Persisted[k]
                  /\ k <= Len(LoadJson(file', << >>))
                  /\ LoadJson(file', << >>)[k] = Persisted[k]
             /\ (mode' = "ext" /\ checked'[k] # checked[k]) =>
                  /\ k = pos
                  /\ pc = "xvi"
                  /\ checked'[k].key = checked[k].key
                  /\ \/ Len(checked'[k].val.variants) > Len(checked[k].val.variants)
                     \/ ~NoneExists(results)
        /\ file' # file => pc = "xsave" /\ modified
    ]_vars

\* a pass over a file with an error record, an ok record without V5 and an
\* ok record with V5 and V6: it probes V7 first
C11_Witness ==
  /\ mode = "ext"
  /\ pc = "xvi"
  /\ Len(Persisted) = 3
  /\ \E k \in 1..3 : Persisted[k].val.status = "error"
  /\ \E k \in 1..3 : Persisted[k].val.status = "ok" /\ ~Lists(Persisted[k], 5)
  /\ Lists(Persisted[pos], 6)
  /\ probed = << UrlOf(ItemOf(Persisted[pos].key), 7) >>

\* the entry of the mapping m that the probes recorded in probed are for (0:
\* they are for no version of 6..9 of an entry)
ProbedEntry(m) ==
  LET for == { k \in 1..Len(m) : \E v \in 6..9 : probed[1] = UrlOf(ItemOf(m[k].key), v) }
  IN  IF for = {} THEN 0 ELSE Min(for)

\* the versions of 6..9 that the record kv does not list, in ascending order
RECURSIVE AbsentFrom(_, _)
AbsentFrom(kv, v) ==
  IF v > 9 THEN << >>
  ELSE (IF Lists(kv, v) THEN << >> ELSE << v >>) \o AbsentFrom(kv, v + 1)

Elements(vs) == { vs[k] : k \in 1..Len(vs) }

\* C12: while the extended pass probes a record, the URLs probed are, in
\* order, those of the versions of 6..9 that the record of the file does not
\* list, each the record's V5 URL with the version in place of 5, and the
\* list in memory is the list of the file followed by the URLs whose probe
\* returned Exists; when the pass comes to its save, every such version of
\* the last record probed has been probed, whatever the earlier answers,
\* and its list holds the elements of the list of the file and the URLs
\* whose probe returned Exists, once each, in strictly ascending version
\* order; this is the list the save writes.
C12_ExtendedPassResult ==
  [][ (mode = "ext" /\ pc \in { "xvi", "xsave" } /\ probed # << >>) =>
        LET e == ProbedEntry(Persisted)
            item == ItemOf(Persisted[e].key)
            prev == Persisted[e].val.variants
            new == checked[e].val.variants
            absent == AbsentFrom(Persisted[e], 6)
            found == SelectSeq(probed, LAMBDA u :
                       \E n \in 1..Len(results) : results[n] /\ probed[n] = u)
        IN  /\ e # 0
            /\ Eligible(Persisted[e])
            /\ checked[e].key = Persisted[e].key
            /\ Len(probed) <= Len(absent)
            /\ \A n \in 1..Len(probed) :
                 /\ probed[n] = UrlOf(item, absent[n])
                 /\ probed[n] =
                      LET p == CHOOSE q \in 1..Len(prev) : prev[q] = UrlOf(item, 5)
                          l == LastHyphen(prev[p])
                      IN  SubSeq(prev[p], 1, l - 2) \o Decimal(absent[n])
                            \o SubSeq(prev[p], l, Len(prev[p]))
            /\ pc = "xvi" =>
                 /\ e = pos
                 /\ Len(results) = Len(probed) - 1
                 /\ new = prev \o found
            /\ pc = "xsave" =>
                 /\ Len(probed) = Len(absent)
                 /\ Len(results) = Len(probed)
                 /\ Elements(new) = Elements(prev) \cup Elements(found)
                 /\ Len(new) = Len(prev) + Len(found)
                 /\ \A j \in 1..Len(new) : \A l \in 1..Len(new) :
                      j < l => VersionOf(new[j]) < VersionOf(new[l])
                 /\ interrupts' = interrupts =>
                      LoadJson(file', << >>)[e].val.variants = new
    ]_vars

\* V6 and V7 were not found, V8 was, V9 was not: V8 is added to V1, V2, V4, V5
C12_Witness ==
  /\ mode = "ext"
  /\ pc = "xsave"
  /\ results = << FALSE, FALSE, TRUE, FALSE >>
  /\ Versions(probed) = << 6, 7, 8, 9 >>
  /\ Versions(Persisted[1].val.variants) = << 1, 2, 4, 5 >>
  /\ Versions(checked[1].val.variants) = << 1, 2, 4, 5, 8 >>

\* where the lines of the section begin that list a card, and the line
\* that begins at p, up to its line break
LineStarts ==
  { p \in 1..(Len(section) - 1) :
      /\ section[p] = "-"
      /\ section[p + 1] = " "
      /\ p > 1 => section[p - 1] = "\n" }

LineAt(p) ==
  SubSeq(section, p, Min({ r \in p..Len(section) : section[r] = "\n" }) - 1)

\* the name a link is shown under: what follows its last slash
LinkName(link) ==
  SubSeq(link, Min({ p \in 1..(Len(link) + 1) : \A r \in p..Len(link) : link[r] # "/" }),
         Len(link))

\* the links of vs from the j-th on, each as [name](link), with ", " between
RECURSIVE LinksFrom(_, _)
LinksFrom(vs, j) ==
  IF j > Len(vs) THEN << >>
  ELSE << "[" >> \o LinkName(vs[j]) \o << "]", "(" >> \o vs[j] \o << ")" >>
         \o (IF j < Len(vs) THEN << ",", " " >> ELSE << >>)
         \o LinksFrom(vs, j + 1)

\* the line of an entry of the report: its card, then its variants but the
\* first
ExpectedLine(entry) ==
  << "-", " " >> \o entry.card \o << ":", " " >> \o LinksFrom(entry.variants, 2)

\* the line at p is a line of the card
IsLineOf(p, card) ==
  LET prefix == << "-", " " >> \o card \o << ":", " " >>
  IN  /\ Len(LineAt(p)) >= Len(prefix)
      /\ SubSeq(LineAt(p), 1, Len(prefix)) = prefix

\* the store holds one record, of an item of the catalog, ok with the
\* versions vs
OnlyRecordLists(vs) ==
  /\ Len(Persisted) = 1
  /\ Persisted[1].val.status = "ok"
  /\ \E n \in 1..NItems :
       /\ Items[n].card = Persisted[1].key
       /\ Persisted[1].val.variants = [k \in 1..Len(vs) |-> UrlOf(Items[n], vs[k])]

\* updateReadme has built its section and is about to write README.md
SectionBuilt == mode = "readme" /\ pc = "write"

\* C13 as stated: once the report is derived, a store whose only record is ok
\* with [V1] has an empty report, and one whose only record has [V1, V3] has
\* one report entry, listing V3 only.
C13_ReportExcludesV1 ==
  report # Missing =>
    /\ OnlyRecordLists(<< 1 >>) => LoadJson(report, << >>) = << >>
    /\ OnlyRecordLists(<< 1, 3 >>) =>
         /\ Len(LoadJson(report, << >>)) = 1
         /\ Versions(LoadJson(report, << >>)[1].variants) = << 3 >>

\* C13, amended: the derived report has an entry for every record with at
\* least one variant, with the whole list (a record with [V1] alone has an
\* entry listing V1, one with [V1, V3] an entry listing both); in the section
\* that updateReadme renders from the report an entry with fewer than two
\* variants has no line and any other entry has exactly one, which links its
\* variants but the first, and the section has no other line: a store whose
\* only record has [V1] gives a section without lines, one whose only record
\* has [V1, V3] gives one line, linking V3 only.
C13_ReportAndRendering ==
  /\ report # Missing =>
       LET kept == { k \in 1..Len(Persisted) : Persisted[k].val.variants # << >> }
           rep == LoadJson(report, << >>)
       IN  /\ Len(rep) = Cardinality(kept)
           /\ \A k \in kept :
                \E n \in 1..Len(rep) :
                  /\ rep[n].card = Persisted[k].key
                  /\ rep[n].variants = Persisted[k].val.variants
           /\ OnlyRecordLists(<< 1 >>) =>
                Len(rep) = 1 /\ Versions(rep[1].variants) = << 1 >>
           /\ OnlyRecordLists(<< 1, 3 >>) =>
                Len(rep) = 1 /\ Versions(rep[1].variants) = << 1, 3 >>
  /\ SectionBuilt =>
       LET rep == LoadJson(report, << >>)
       IN  /\ \A p \in LineStarts :
                \E n \in 1..Len(rep) :
                  /\ Len(rep[n].variants) >= 2
                  /\ LineAt(p) = ExpectedLine(rep[n])
           /\ \A n \in 1..Len(rep) :
                LET at == { p \in LineStarts : IsLineOf(p, rep[n].card) }
                IN  IF Len(rep[n].variants) <= 1 THEN at = {}
                    ELSE /\ Cardinality(at) = 1
                         /\ \A p \in at : LineAt(p) = ExpectedLine(rep[n])
           /\ (report # Missing /\ OnlyRecordLists(<< 1 >>)) => LineStarts = {}
           /\ (report # Missing /\ OnlyRecordLists(<< 1, 3 >>)) =>
                /\ Cardinality(LineStarts) = 1
                /\ \A p \in LineStarts :
                     LET v3 == Persisted[1].val.variants[2]
                     IN  LineAt(p) = << "-", " " >> \o Persisted[1].key \o << ":", " ", "[" >>
                                       \o LinkName(v3) \o << "]", "(" >> \o v3 \o << ")" >>

\* the only record has [V1, V3]: the report has its entry with both, and the
\* section that updateReadme has built has one line, linking V3
C13_Witness ==
  /\ SectionBuilt
  /\ report # Missing
  /\ OnlyRecordLists(<< 1, 3 >>)
  /\ Len(LoadJson(report, << >>)) = 1
  /\ Versions(LoadJson(report, << >>)[1].variants) = << 1, 3 >>
  /\ Cardinality(LineStarts) = 1
  /\ \A p \in LineStarts : VersionOf(LineAt(p)) = 3

\* the extended pass at entry e, version v has a probe left to issue
ProbesLeft(e, v) ==
  \/ \E w \in (v + 1)..9 : ~Lists(Persisted[e], w)
  \/ \E k \in (e + 1)..Len(Persisted) :
       Eligible(Persisted[k]) /\ \E w \in 6..9 : ~Lists(Persisted[k], w)

C15_UnboundedRetries ==
  /\ [][ (pret = "pending" /\ pret' # "pending") =>
           resps'[1].status \notin { 429, 403 } ]_vars
  /\ [](pret # "pending" => resps # << >> /\ resps[1].status \notin { 429, 403 })
  /\ (calm ~> pret # "pending")

\* the call has returned after MaxCount requests or more
C15_Witness ==
  /\ calm
  /\ pret = "true"
  /\ nreq = MaxCount
  /\ sleeps # << >>

AllCards == { Items[k].card : k \in 1..NItems }

Keys(m) == { m[k].key : k \in 1..Len(m) }

\* C16: choice 9 over any store writes the empty mapping to the checkpoint
\* file and then the empty list to the report, no probe having been issued;
\* the scan that follows starts at the first catalog item with an empty
\* mapping and, unless the process is killed or a write is rejected, goes from
\* each item to the next one, skipping none, and ends only after the sleep
\* that follows the saves of the last; while it runs the file
\* holds records of items processed since the wipe only, and when it ends the
\* file has a record for every item, each written by this run.
C16_ClearAndRescan ==
  [][ /\ (mode = "idle" /\ mode' = "clear") =>
           /\ file' = SaveJson(<< >>)
           /\ pc' = "clear2"
           /\ probed' = << >> /\ results' = << >>
      /\ (pc = "clear2" /\ interrupts' = interrupts) =>
           /\ file = SaveJson(<< >>) /\ file' = file
           /\ probed = << >> /\ results = << >>
           /\ report' = SaveJson(<< >>)
           /\ mode' = "clear" /\ pc' = "v1" /\ pos' = 1
           /\ checked' = << >>
           /\ probed' = << UrlOf(Items[1], 1) >>
      /\ (mode = "clear" /\ pc = "saveVariants" /\ interrupts' = interrupts) =>
           mode' = "clear" /\ pc' = "sleep" /\ pos' = pos
      /\ (mode = "clear" /\ pc = "sleep" /\ interrupts' = interrupts) =>
           IF pos < NItems
           THEN mode' = "clear" /\ pc' = "v1" /\ pos' = pos + 1
           ELSE /\ halt' = "finished"
                /\ Keys(LoadJson(file', << >>)) = AllCards
                /\ completed' = AllCards
      /\ (mode = "clear" /\ halt' = "finished") => pc = "sleep" /\ pos = NItems
      /\ (mode = "clear" /\ pc # "clear2") =>
           /\ Keys(Persisted) \subseteq completed
           /\ Keys(checked) \subseteq completed \cup { Item.card }
    ]_vars

\* no run was ever killed or ended by a rejected write, so the store held
\* records when choice 9 wiped it; the rescan has saved the record of the last
\* item and written the report
C16_Witness ==
  /\ mode = "clear"
  /\ pc = "sleep"
  /\ pos = NItems
  /\ interrupts = 0
  /\ Keys(Persisted) = AllCards
  /\ completed = AllCards

\* the cards of the first n catalog items
FirstCards(n) == { Items[k].card : k \in 1..n }

\* C17: a scan started in either mode while the checkpoint file is missing,
\* unreadable or not parseable does not end there: it has the empty mapping
\* and is at the first probe of the first catalog item, as it is when the file
\* holds the empty mapping; as long as the file is in that condition the scan
\* is at its first item, whose save replaces the file by the mapping unless
\* the run is ended there; and after the sleep that follows the saves, a scan
\* whose mapping has records of the items before the current one only goes on
\* with the very next item and ends only after the last one.
C17_UnloadableStoreIsEmpty ==
  [][ /\ (mode = "idle" /\ file.kind # "json" /\ mode' # "idle") =>
           /\ mode' \in { "scan", "retry" }
           /\ halt' = "running"
           /\ checked' = << >>
           /\ pc' = "v1" /\ pos' = 1
           /\ probed' = << UrlOf(Items[1], 1) >>
           /\ file' = file
      /\ (mode = "idle" /\ file.kind # "json") => mode' \in { "idle", "scan", "retry" }
      /\ (InMainScan /\ file.kind # "json") =>
           /\ pos = 1
           /\ Keys(checked) \subseteq { Items[1].card }
           /\ pc = "save" => file' = SaveJson(checked) \/ interrupts' # interrupts
      /\ (InMainScan /\ pc = "sleep" /\ Keys(checked) = FirstCards(pos)
            /\ interrupts' = interrupts) =>
           IF pos < NItems
           THEN mode' = mode /\ pc' = "v1" /\ pos' = pos + 1
           ELSE halt' = "finished" /\ Keys(Persisted) = AllCards
    ]_vars

\* a retry-errors-only scan over a file it could not parse has the record of
\* the first item and is about to write the file
C17_Witness ==
  /\ file.kind = "unparseable"
  /\ HasKey(file.data, Items[1].card)
  /\ mode = "retry"
  /\ pc = "save"
  /\ pos = 1
  /\ Keys(checked) = { Items[1].card }

\* the first token of a line, the ordinal
OrdinalOf(line) ==
  LET spaces == { p \in 1..Len(line) : line[p] \in WhiteSpace }
  IN  IF spaces = {} THEN line ELSE SubSeq(line, 1, Min(spaces) - 1)

\* the line has an ordinal token and it is a number
WellFormed(line) ==
  /\ OrdinalOf(line) # << >>
  /\ \A k \in 1..Len(OrdinalOf(line)) : IsDigit(OrdinalOf(line)[k])

\* the cards loadAllCards returned for the file
Cards == loaded[1].cards

\* C18 as the specification words it: the card of "7 Pikachu" is
\* pikachu-SVI007 and the card of "12 Mewtwo (Holo)" is mewtwo-SVI012,
\* whatever white space stands between the tokens of the line; the card of a
\* line with a numeric ordinal holds no text of an annotation, no doubled
\* hyphen and no hyphen in front.
C18_NormalizerDropsAnnotations ==
  loaded # << >> =>
    \A k \in 1..Len(json.cards) :
      WellFormed(json.cards[k]) =>
        /\ json.cards[k] \in { LinePikachu, LineTab } =>
             Cards[k] = << "p", "i", "k", "a", "c", "h", "u", "-", "S", "V", "I", "0", "0", "7" >>
        /\ json.cards[k] \in { LineMewtwo, LineNoBreak } =>
             /\ Cards[k] = << "m", "e", "w", "t", "w", "o", "-", "S", "V", "I", "0", "1", "2" >>
             /\ ~Includes(Cards[k], << "H", "o", "l", "o" >>)
        /\ ~Includes(Cards[k], << "-", "-" >>)
        /\ Cards[k][1] # "-"

\* the lines of the file with a numeric ordinal, in their order
WellFormedLines == SelectSeq(json.cards, WellFormed)

\* C19 as the specification words it: loadAllCards returns cards for the
\* lines with a numeric ordinal only, one for each in their order; a line
\* without an ordinal token or with an ordinal that is not a number gives no
\* card, so that scanCards has nothing to probe or to record for it.
C19_MalformedLineSkipped ==
  loaded # << >> =>
    /\ Len(Cards) = Len(WellFormedLines)
    /\ \A k \in 1..Len(Cards) :
         k <= Len(WellFormedLines) =>
           Cards[k] = FormatCard(WellFormedLines[k], json.code)

\* the sleep is there and every length randomDelay can give it lies in the
\* window of 3000 to 5000 ms
IsJitter(d) ==
  /\ d # NoSleep
  /\ \A r \in Randoms : RandomDelay(d.min, d.max, r) \in 3000..5000

\* C20 as the specification words it: in the main scan and in the extended
\* pass, every probe of an item after its first one is preceded by a sleep
\* whose length lies in 3000..5000 ms.
C20_JitterBetweenProbes ==
  /\ Len(delays) = Len(probed)
  /\ (InMainScan \/ mode = "ext") =>
       \A k \in 2..Len(probed) : IsJitter(delays[k])

\* the projection of a mapping: its records with a non-empty variants list, in
\* the order of the mapping, each with its key, its collection and its list
RECURSIVE Projection(_)
Projection(m) ==
  IF m = << >> THEN << >>
  ELSE LET val == m[1].val
           entry == [card |-> m[1].key,
                     expansion |-> IF "expansion" \in DOMAIN val THEN val.expansion
                                   ELSE Unknown,
                     variants |-> val.variants]
       IN  (IF val.variants = << >> THEN << >> ELSE << entry >>)
             \o Projection(Tail(m))

\* the report file r holds the projection of the checkpoint file f
Agree(f, r) == LoadJson(r, << >>) = Projection(LoadJson(f, << >>))

\* the first write of a save has returned and the second has not
InSave == pc \in { "saveVariants", "xsaveVariants", "clear2" }

\* C21 as the specification words it: whenever no save is in progress, the
\* report file holds the projection of the checkpoint file.
C21_ReportIsProjection == ~InSave => Agree(file, report)

\* some record of the mapping m has more variants than it has in the file
Gained(m) ==
  \E k \in 1..Len(m) :
    /\ k <= Len(Persisted)
    /\ Persisted[k].key = m[k].key
    /\ Len(m[k].val.variants) > Len(Persisted[k].val.variants)

\* the URLs in the records of the checkpoint file
StoredUrls ==
  UNION { { Persisted[k].val.variants[n] : n \in 1..Len(Persisted[k].val.variants) } :
            k \in 1..Len(Persisted) }

\* C22: starting an extended pass writes nothing; while the pass probes, no
\* step changes the checkpoint file or the report, whether the step is a
\* probe, a fault that ends the run or the kill of the process; the
\* checkpoint file is written at one point only, when every record has been
\* examined and one of them has gained a variant, and it then receives the
\* mapping of the pass (a write that is rejected leaves it as it was); the
\* report is written only right after it, and that write ends the pass.
C22_ExtendedPassSavesOnce ==
  [][ /\ (mode = "idle" /\ mode' \in { "idle", "ext" }) =>
           file' = file /\ report' = report
      /\ (mode = "ext" /\ pc = "xvi") =>
           /\ file' = file /\ report' = report
           /\ ~wrote
           /\ pc' = "xsave" => modified' /\ Gained(checked') /\ pos' > Len(checked')
           /\ (mode' = "idle" /\ halt' = "finished") => ~Gained(checked)
      /\ (mode = "ext" /\ pc = "xsave") =>
           /\ modified /\ Gained(checked) /\ pos > Len(checked)
           /\ report' = report
           /\ interrupts' = interrupts =>
                file' = SaveJson(checked) /\ pc' = "xsaveVariants" /\ mode' = "ext"
           /\ interrupts' # interrupts => file' = file
      /\ (mode = "ext" /\ pc = "xsaveVariants") =>
           /\ file' = file
           /\ mode' = "idle"
           /\ interrupts' = interrupts => halt' = "finished"
      /\ mode = "ext" => pc \in { "xvi", "xsave", "xsaveVariants" }
    ]_vars

\* a pass whose answers were recorded found a variant and then ended on a
\* fault: the variant it found is not in the checkpoint file
C22_Witness ==
  /\ mode = "idle"
  /\ halt = "uncaught"
  /\ seen.of = "ext"
  /\ \E a \in seen.answers : a.ans = "E" /\ a.url \notin StoredUrls
  /\ \E a \in seen.answers : a.ans = "F"

Settled(r) == r.status \in { "ok", "no-variants" }

\* every ok or no-variants record of the mapping old is in the mapping new
\* with the same status and with every variant it had
Kept(old, new) ==
  \A k \in 1..Len(old) :
    Settled(old[k].val) =>
      /\ HasKey(new, old[k].key)
      /\ Get(new, old[k].key).status = old[k].val.status
      /\ \A n \in 1..Len(old[k].val.variants) :
           \E l \in 1..Len(Get(new, old[k].key).variants) :
             Get(new, old[k].key).variants[l] = old[k].val.variants[n]

\* every ok or no-variants record of the mapping old is the same in new
Untouched(old, new) ==
  \A k \in 1..Len(old) :
    Settled(old[k].val) =>
      HasKey(new, old[k].key) /\ Get(new, old[k].key) = old[k].val

\* C23: on every step of a scan that keeps the cache, of a retry-errors-only
\* scan and of an extended pass (steps of choice 9 apart), an ok or
\* no-variants record of the checkpoint file keeps its status and all of its
\* variants; the steps of the two scans leave such a record as it is, in the
\* file and in the mapping in memory; within an extended pass the mapping in
\* memory keeps the status and the variants of such records; and a step
\* that gives a record of the file more variants is the write of an
\* extended pass.
C23_SettledRecordsKept ==
  [][ (mode # "clear" /\ mode' # "clear") =>
        /\ Kept(Persisted, LoadJson(file', << >>))
        /\ mode \in { "scan", "retry" } =>
             /\ Untouched(Persisted, LoadJson(file', << >>))
             /\ mode' = mode => Untouched(checked, checked')
        /\ (mode = "idle" /\ mode' \in { "scan", "retry" }) =>
             Untouched(Persisted, checked')
        /\ (mode = "ext" /\ mode' = "ext") => Kept(checked, checked')
        /\ ~Untouched(Persisted, LoadJson(file', << >>)) =>
             mode = "ext" /\ pc = "xsave"
    ]_vars

\* an extended pass has given the record of the first item a version above
\* V5, and a retry-errors-only scan run after it is at the probes of an item
\* with an error record
C23_Witness ==
  /\ mode = "retry"
  /\ pc = "v1"
  /\ HasKey(checked, Item.card) /\ Get(checked, Item.card).status = "error"
  /\ Len(Persisted) >= 1
  /\ Persisted[1].val.status = "ok"
  /\ \E n \in 1..Len(Persisted[1].val.variants) :
       VersionOf(Persisted[1].val.variants[n]) >= 6

====
